---- MODULE Spec2Model ----
(***************************************************************************)
(* A state-machine model of the Engram SDK: the Git-backed engram store    *)
(* (refs under refs/engrams/, the engram-head pointer file, import         *)
(* de-duplication, remote fetch), the commit hooks with the active-session *)
(* file, and the PTY capture threads.                                      *)
(*                                                                         *)
(* Strings are sequences of tokens.  An identifier is a sequence of hex    *)
(* characters; a text is a sequence of characters and of atoms such as     *)
(* "## Summary" that stand for the literal the parser looks for.           *)
(***************************************************************************)
EXTENDS Integers, Sequences, FiniteSets, TLC

VARIABLES
    refs,        \* the repository's refs: ref name -> commit (the stored tree)
    headFile,    \* <git-dir>/engram-head: None or Some("<id> <rfc3339>")
    remote,      \* the refs of the shared remote repository
    config,      \* remote.origin.fetch / remote.origin.push of the repository
    last,        \* the last operation performed and what it returned
    sessionFile, \* <git-dir>/engram-session: None, or Some(text)
    fileLock,    \* the holder of the exclusive lock on the session file
    msgFile,     \* the commit message file Git hands to prepare-commit-msg
    git,         \* the host repository: HEAD and the commits made
    hooks,       \* the post-commit hook processes
    rec,         \* the `engram record` run
    hookFiles,   \* <git-dir>/hooks: the hook scripts and their backups
    pty,         \* the threads of PtySession::run, the child and the terminal
    peer,        \* the refs of a second clone of the shared remote
    index,       \* <git-dir>/engram-index: None, or Some(documents)
    creators     \* the processes that call GitStorage::create at the same time

storeVars == <<refs, headFile, remote, config>>

hookVars == <<sessionFile, fileLock, msgFile, git, hooks, rec, hookFiles>>

\* The state outside the repository the commands run in.
extVars == <<peer, index, creators>>

vars == <<refs, headFile, remote, config, last,
          sessionFile, fileLock, msgFile, git, hooks, rec, hookFiles, pty, peer, index, creators>>

None == <<>>
Some(x) == <<x>>
IsSome(o) == o /= <<>>
Unwrap(o) == o[1]

----------------------------------------------------------------------------
(* Bounds and input sets                                                   *)

MaxEngrams == 2
MaxTime == 2
MaxRemote == 1
MaxTextLen == 2
MaxSessions == 2
MaxCommits == 2
MaxMsgLen == 2
MaxOutput == 2
MaxInput == 2
MaxRuns == 1

\* Sample identifiers, all of one length as EngramId::new() makes them.
Ids == { <<"a","a","b">>, <<"a","b","a">>, <<"a","b","b">>, <<"b","a","a">> }

\* Arguments of resolve/read/delete: every prefix of an identifier, and two
\* strings that match nothing.
PrefixArgs ==
    { SubSeq(i, 1, n) : i \in Ids, n \in 0..3 }
        \cup { <<"b","b">>, <<"a","a","b","a">> }

Times == 1..MaxTime

\* Agent names are texts too: the list filter is a substring match.
Agents == { <<"aider">>, <<"claude", "-code">> }

----------------------------------------------------------------------------
(* Text: str::lines, str::trim, starts_with                                *)

Whitespace == { " ", "\n" }

\* The section headers Intent::from_markdown looks for, each one atom.
HdrIntent == "# Intent"
HdrOriginal == "## Original Request"
HdrGoal == "## Interpreted Goal"
HdrSummary == "## Summary"
HdrDeadEnds == "## Dead Ends"
HdrDecisions == "## Decisions"
ItemOpen == "- **"
ItemSep == "**: "

StartsWith(line, atom) == Len(line) > 0 /\ line[1] = atom

RECURSIVE SplitNl(_)
SplitNl(s) ==
    IF \A i \in 1..Len(s) : s[i] /= "\n"
    THEN << s >>
    ELSE LET i == CHOOSE k \in 1..Len(s) :
                      s[k] = "\n" /\ \A j \in 1..(k-1) : s[j] /= "\n"
         IN  << SubSeq(s, 1, i-1) >> \o SplitNl(SubSeq(s, i+1, Len(s)))

\* str::lines(): split at newlines; a final empty line is not produced.
Lines(s) ==
    LET parts == SplitNl(s)
    IN  IF parts[Len(parts)] = <<>> THEN SubSeq(parts, 1, Len(parts)-1) ELSE parts

RECURSIVE TrimStart(_)
TrimStart(s) ==
    IF s /= <<>> /\ s[1] \in Whitespace THEN TrimStart(Tail(s)) ELSE s

RECURSIVE TrimEnd(_)
TrimEnd(s) ==
    IF s /= <<>> /\ s[Len(s)] \in Whitespace
    THEN TrimEnd(SubSeq(s, 1, Len(s)-1)) ELSE s

Trim(s) == TrimEnd(TrimStart(s))

RECURSIVE Concat(_)
Concat(ss) == IF ss = <<>> THEN <<>> ELSE Head(ss) \o Concat(Tail(ss))

----------------------------------------------------------------------------
(* Intent <-> intent.md                                                    *)

RenderItems(items, key, val) ==
    Concat([ i \in 1..Len(items) |->
               <<ItemOpen>> \o items[i][key] \o <<ItemSep>> \o items[i][val] \o <<"\n">> ])

to_markdown(intent) ==
    <<HdrIntent, "\n", "\n">> \o intent.original_request \o <<"\n">>
    \o (IF IsSome(intent.interpreted_goal)
        THEN <<"\n", HdrGoal, "\n", "\n">> \o Unwrap(intent.interpreted_goal) \o <<"\n">>
        ELSE <<>>)
    \o (IF IsSome(intent.summary)
        THEN <<"\n", HdrSummary, "\n", "\n">> \o Unwrap(intent.summary) \o <<"\n">>
        ELSE <<>>)
    \o (IF intent.dead_ends /= <<>>
        THEN <<"\n", HdrDeadEnds, "\n", "\n">>
             \o RenderItems(intent.dead_ends, "approach", "reason")
        ELSE <<>>)
    \o (IF intent.decisions /= <<>>
        THEN <<"\n", HdrDecisions, "\n", "\n">>
             \o RenderItems(intent.decisions, "description", "rationale")
        ELSE <<>>)

save_section(st) ==
    LET trimmed == Trim(st.content)
    IN  IF trimmed = <<>> THEN st
        ELSE IF st.section = "intent" THEN [st EXCEPT !.original_request = trimmed]
        ELSE IF st.section = "goal" THEN [st EXCEPT !.interpreted_goal = Some(trimmed)]
        ELSE IF st.section = "summary" THEN [st EXCEPT !.summary = Some(trimmed)]
        ELSE st

\* split_once("**: ") on the text after "- **": the first separator decides.
SplitItem(entry) ==
    IF \E i \in 1..Len(entry) : entry[i] = ItemSep
    THEN LET i == CHOOSE k \in 1..Len(entry) :
                      entry[k] = ItemSep /\ \A j \in 1..(k-1) : entry[j] /= ItemSep
         IN  Some(<< SubSeq(entry, 1, i-1), SubSeq(entry, i+1, Len(entry)) >>)
    ELSE None

\* One iteration of the loop over md.lines().
ParseLine(st, line) ==
    IF StartsWith(line, HdrIntent)
    THEN [st EXCEPT !.section = "intent", !.content = <<>>]
    ELSE IF StartsWith(line, HdrOriginal)
    THEN [save_section(st) EXCEPT !.section = "intent", !.content = <<>>]
    ELSE IF StartsWith(line, HdrGoal)
    THEN [save_section(st) EXCEPT !.section = "goal", !.content = <<>>]
    ELSE IF StartsWith(line, HdrSummary)
    THEN [save_section(st) EXCEPT !.section = "summary", !.content = <<>>]
    ELSE IF StartsWith(line, HdrDeadEnds)
    THEN [save_section(st) EXCEPT !.section = "dead_ends", !.content = <<>>]
    ELSE IF StartsWith(line, HdrDecisions)
    THEN [save_section(st) EXCEPT !.section = "decisions", !.content = <<>>]
    ELSE IF st.section = "dead_ends"
    THEN IF StartsWith(line, ItemOpen) /\ IsSome(SplitItem(Tail(line)))
         THEN LET kv == Unwrap(SplitItem(Tail(line)))
              IN  [st EXCEPT !.dead_ends =
                      Append(@, [approach |-> kv[1], reason |-> kv[2]])]
         ELSE st
    ELSE IF st.section = "decisions"
    THEN IF StartsWith(line, ItemOpen) /\ IsSome(SplitItem(Tail(line)))
         THEN LET kv == Unwrap(SplitItem(Tail(line)))
              IN  [st EXCEPT !.decisions =
                      Append(@, [description |-> kv[1], rationale |-> kv[2]])]
         ELSE st
    ELSE IF st.content /= <<>> \/ line /= <<>>
    THEN [st EXCEPT !.content =
             (IF @ /= <<>> THEN @ \o <<"\n">> ELSE @) \o line]
    ELSE st

RECURSIVE ParseLines(_, _)
ParseLines(st, lines) ==
    IF lines = <<>> THEN st ELSE ParseLines(ParseLine(st, Head(lines)), Tail(lines))

from_markdown(md) ==
    LET st0 == [ section |-> "intent", content |-> <<>>,
                 original_request |-> <<>>, interpreted_goal |-> None,
                 summary |-> None, dead_ends |-> <<>>, decisions |-> <<>> ]
        st == save_section(ParseLines(st0, Lines(md)))
    IN  [ original_request |-> st.original_request,
          interpreted_goal |-> st.interpreted_goal,
          summary |-> st.summary,
          dead_ends |-> st.dead_ends,
          decisions |-> st.decisions ]


----------------------------------------------------------------------------
(* serde_json: optional and empty fields are left out and come back as     *)
(* their defaults; chrono timestamps travel as RFC 3339 text.              *)

to_rfc3339(t) == << "rfc3339", t >>
parse_rfc3339(s) == IF Len(s) = 2 /\ s[1] = "rfc3339" THEN Some(s[2]) ELSE None

\* skip_serializing_if: the fields of `skip` are left out when None/empty;
\* an Option field that is present carries the bare value.
JsonObject(obj, options, skip) ==
    [ k \in { f \in DOMAIN obj : ~(f \in skip /\ obj[f] = <<>>) } |->
        IF k \in options THEN Unwrap(obj[k]) ELSE obj[k] ]

\* #[serde(default)]: a missing field reads as None / the empty Vec.
JsonParse(json, fields, options) ==
    [ k \in fields |->
        IF k \in DOMAIN json
        THEN (IF k \in options THEN Some(json[k]) ELSE json[k])
        ELSE <<>> ]

ManifestFields ==
    { "id", "version", "created_at", "finished_at", "agent", "git_commits",
      "token_usage", "summary", "tags", "capture_mode", "source_hash" }
ManifestOptions == { "finished_at", "summary", "source_hash" }
ManifestSkip == ManifestOptions \cup { "tags" }

manifest_to_json(m) ==
    JsonObject(
        [ m EXCEPT !.created_at = to_rfc3339(@),
                   !.agent = JsonObject(@, {"model"}, {"model"}),
                   !.token_usage = JsonObject(@, {"cost_usd"}, {"cost_usd"}) ],
        ManifestOptions, ManifestSkip)

manifest_from_json(json) ==
    LET m == JsonParse(json, ManifestFields, ManifestOptions)
    IN  [ m EXCEPT !.created_at = Unwrap(parse_rfc3339(@)),
                   !.agent = JsonParse(@, {"name", "model"}, {"model"}),
                   !.token_usage =
                       JsonParse(@, { "input_tokens", "output_tokens",
                                      "cache_read_tokens", "cache_write_tokens",
                                      "total_tokens", "cost_usd" }, {"cost_usd"}) ]

OperationsFields == { "tool_calls", "file_changes", "shell_commands" }
operations_to_json(o) == JsonObject(o, {}, OperationsFields)
operations_from_json(json) == JsonParse(json, OperationsFields, {})

LineageFields ==
    { "parent_engram", "child_engrams", "related_engrams", "git_commits", "branch" }
LineageOptions == { "parent_engram", "branch" }
lineage_to_json(l) ==
    JsonObject(l, LineageOptions, LineageFields \ {"git_commits"})
lineage_from_json(json) == JsonParse(json, LineageFields, LineageOptions)

\* transcript.jsonl: one object per line; blank lines are skipped on read.
to_jsonl(t) ==
    [ i \in 1..Len(t.entries) |->
        JsonObject([ t.entries[i] EXCEPT !.timestamp = to_rfc3339(@) ],
                   {"token_count"}, {"token_count"}) ]
from_jsonl(lines) ==
    LET kept == SelectSeq(lines, LAMBDA ln : ln /= <<>>)
    IN  [ entries |->
            [ i \in 1..Len(kept) |->
                [ JsonParse(kept[i], {"timestamp", "role", "content", "token_count"},
                            {"token_count"})
                  EXCEPT !.timestamp = Unwrap(parse_rfc3339(@)) ] ] ]


----------------------------------------------------------------------------
(* Object layout (storage/objects.rs, storage/read.rs)                     *)

\* The commit that create_engram_objects writes: its message and the five
\* blobs of its tree.  Git objects are content-addressed, so the commit
\* stands for its own oid.
create_engram_objects(data) ==
    [ message |-> << "engram: ", data.manifest.id >>,
      tree |-> [ manifest_json |-> manifest_to_json(data.manifest),
                 intent_md |-> to_markdown(data.intent),
                 transcript_jsonl |-> to_jsonl(data.transcript),
                 operations_json |-> operations_to_json(data.operations),
                 lineage_json |-> lineage_to_json(data.lineage) ] ]

read_engram(commit) ==
    [ manifest |-> manifest_from_json(commit.tree.manifest_json),
      intent |-> from_markdown(commit.tree.intent_md),
      transcript |-> from_jsonl(commit.tree.transcript_jsonl),
      operations |-> operations_from_json(commit.tree.operations_json),
      lineage |-> lineage_from_json(commit.tree.lineage_json) ]

read_manifest(commit) == manifest_from_json(commit.tree.manifest_json)

----------------------------------------------------------------------------
(* Ref namespace (storage/refs.rs)                                         *)

\* A fan-out of one character instead of two.
fanout_prefix_one_char(id) ==
    IF Len(id) >= 2 THEN SubSeq(id, 1, 1) ELSE << "0", "0" >>

fanout_prefix(id) == IF Len(id) >= 2 THEN SubSeq(id, 1, 2) ELSE << "0", "0" >>

\* "refs/engrams/<ab>/<full-id>" as its path components.
engram_ref_name(id) == << "refs", "engrams", fanout_prefix(id), id >>

IsEngramRef(name) == Len(name) = 4 /\ name[1] = "refs" /\ name[2] = "engrams"

\* Order of the hex characters, for the name order in which Git lists refs.
CharOrder == << "0", "a", "b", "c" >>
CharRank(c) == CHOOSE i \in 1..Len(CharOrder) : CharOrder[i] = c

RECURSIVE TextLess(_, _)
TextLess(s, t) ==
    IF t = <<>> THEN FALSE
    ELSE IF s = <<>> THEN TRUE
    ELSE IF s[1] = t[1] THEN TextLess(Tail(s), Tail(t))
    ELSE CharRank(s[1]) < CharRank(t[1])

RefNameLess(m, n) ==
    IF m[3] = n[3] THEN TextLess(m[4], n[4]) ELSE TextLess(m[3], n[3])

RECURSIVE SortedNames(_)
SortedNames(S) ==
    IF S = {} THEN <<>>
    ELSE LET n == CHOOSE x \in S : \A y \in S \ {x} : RefNameLess(x, y)
         IN  << n >> \o SortedNames(S \ {n})

\* references_glob("refs/engrams/*/*"): (id, oid) pairs in ref-name order.
list_engram_refs(r) ==
    LET names == SortedNames({ n \in DOMAIN r : IsEngramRef(n) })
    IN  [ i \in 1..Len(names) |-> [ id |-> names[i][4], oid |-> r[names[i]] ] ]

IsPrefix(p, s) == Len(p) <= Len(s) /\ SubSeq(s, 1, Len(p)) = p

\* A resolve that answers with the first match instead of refusing an
\* ambiguous prefix.
resolve_engram_ref_first_match(r, id_or_prefix) ==
    LET matches == SelectSeq(list_engram_refs(r),
                             LAMBDA e : IsPrefix(id_or_prefix, e.id))
    IN  IF Len(matches) = 0
        THEN [ tag |-> "not_found", id |-> <<>>, oid |-> None ]
        ELSE [ tag |-> "ok", id |-> matches[1].id, oid |-> Some(matches[1].oid) ]

\* Exact ref first; otherwise the unique identifier that starts with the
\* argument.
resolve_engram_ref(r, id_or_prefix) ==
    IF engram_ref_name(id_or_prefix) \in DOMAIN r
    THEN [ tag |-> "ok", id |-> id_or_prefix,
           oid |-> Some(r[engram_ref_name(id_or_prefix)]) ]
    ELSE LET matches == SelectSeq(list_engram_refs(r),
                                  LAMBDA e : IsPrefix(id_or_prefix, e.id))
         IN  IF Len(matches) = 0
             THEN [ tag |-> "not_found", id |-> <<>>, oid |-> None ]
             ELSE IF Len(matches) = 1
             THEN [ tag |-> "ok", id |-> matches[1].id, oid |-> Some(matches[1].oid) ]
             ELSE [ tag |-> "ambiguous", id |-> <<>>, oid |-> None ]

create_engram_ref(r, id, commit) ==
    [ n \in DOMAIN r \cup { engram_ref_name(id) } |->
        IF n = engram_ref_name(id) THEN commit ELSE r[n] ]

delete_engram_ref(r, id) ==
    [ n \in DOMAIN r \ { engram_ref_name(id) } |-> r[n] ]


----------------------------------------------------------------------------
(* GitStorage (storage/git_backend.rs)                                     *)

HEAD == << "HEAD" >>

\* "<id> <rfc3339-timestamp>": rewritten only when the stored timestamp is
\* absent, unparsable, or older than created_at.
update_head_pointer(file, id, created_at) ==
    LET existing_ts ==
            IF IsSome(file) /\ Len(Unwrap(file)) >= 2
            THEN parse_rfc3339(Unwrap(file)[2]) ELSE None
    IN  IF IsSome(existing_ts) /\ Unwrap(existing_ts) >= created_at
        THEN file
        ELSE Some(<< id, to_rfc3339(created_at) >>)

read_head_pointer(file) ==
    IF IsSome(file) /\ Len(Unwrap(file)) >= 1 THEN Some(Unwrap(file)[1]) ELSE None

Contains(s, sub) ==
    \E i \in 1..(Len(s) + 1) :
        i + Len(sub) - 1 <= Len(s) /\ SubSeq(s, i, i + Len(sub) - 1) = sub

\* Vec::sort_by(|a, b| b.created_at.cmp(&a.created_at)): stable, newest first.
RECURSIVE InsertByCreatedDesc(_, _)
InsertByCreatedDesc(sorted, m) ==
    IF sorted = <<>> THEN << m >>
    ELSE IF Head(sorted).created_at >= m.created_at
         THEN << Head(sorted) >> \o InsertByCreatedDesc(Tail(sorted), m)
         ELSE << m >> \o sorted

RECURSIVE SortByCreatedDesc(_)
SortByCreatedDesc(ms) ==
    IF ms = <<>> THEN <<>>
    ELSE InsertByCreatedDesc(SortByCreatedDesc(SubSeq(ms, 1, Len(ms) - 1)), ms[Len(ms)])

DefaultListOptions == [ limit |-> None, agent_filter |-> None ]

\* read::read_manifest as list uses it: Err(MissingBlob) when the commit's
\* tree has no manifest.json.
try_read_manifest(commit) ==
    IF "manifest_json" \in DOMAIN commit.tree THEN Some(read_manifest(commit)) ELSE None

\* A list that truncates before it sorts.
list_limit_first(r, opts) ==
    LET all_refs == list_engram_refs(r)
        all == [ i \in 1..Len(all_refs) |-> try_read_manifest(all_refs[i].oid) ]
        kept == SelectSeq(all, LAMBDA m :
                    IsSome(m) /\ (~IsSome(opts.agent_filter)
                        \/ Contains(Unwrap(m).agent.name, Unwrap(opts.agent_filter))))
        manifests == [ i \in 1..Len(kept) |-> Unwrap(kept[i]) ]
    IN  SortByCreatedDesc(IF IsSome(opts.limit) /\ Unwrap(opts.limit) < Len(manifests)
                          THEN SubSeq(manifests, 1, Unwrap(opts.limit))
                          ELSE manifests)

list(r, opts) ==
    LET all_refs == list_engram_refs(r)
        all == [ i \in 1..Len(all_refs) |-> try_read_manifest(all_refs[i].oid) ]
        kept == SelectSeq(all, LAMBDA m :
                    IsSome(m) /\ (~IsSome(opts.agent_filter)
                        \/ Contains(Unwrap(m).agent.name, Unwrap(opts.agent_filter))))
        sorted == SortByCreatedDesc([ i \in 1..Len(kept) |-> Unwrap(kept[i]) ])
    IN  IF IsSome(opts.limit) /\ Unwrap(opts.limit) < Len(sorted)
        THEN SubSeq(sorted, 1, Unwrap(opts.limit))
        ELSE sorted

find_by_source_hash(r, hash) ==
    LET hits == SelectSeq(list_engram_refs(r),
                          LAMBDA e : /\ IsSome(try_read_manifest(e.oid))
                                     /\ read_manifest(e.oid).source_hash = Some(hash))
    IN  IF hits = <<>> THEN None ELSE Some(hits[1].id)

EngramCount(r) == Cardinality({ n \in DOMAIN r : IsEngramRef(n) })

----------------------------------------------------------------------------
(* The search index (engram-query: index/writer.rs, index/rebuild.rs)      *)

\* The model stops adding documents to an index that holds this many.
MaxDocs == 3

\* .collect::<Vec<_>>().join("\n")
RECURSIVE JoinLines(_)
JoinLines(texts) ==
    IF texts = << >> THEN << >>
    ELSE IF Len(texts) = 1 THEN texts[1]
    ELSE texts[1] \o << "\n" >> \o JoinLines(Tail(texts))

\* The document EngramIndexWriter::index_engram adds for an engram.
index_doc(data) ==
    [ id |-> data.manifest.id,
      intent_request |-> data.intent.original_request,
      intent_summary |-> IF IsSome(data.intent.summary)
                         THEN Unwrap(data.intent.summary) ELSE << >>,
      transcript_text |->
          JoinLines([ i \in 1..Len(SelectSeq(data.transcript.entries,
                                             LAMBDA e : e.content.type = "text")) |->
                        SelectSeq(data.transcript.entries,
                                  LAMBDA e : e.content.type = "text")[i].content.text ]),
      created_at |-> data.manifest.created_at,
      file_paths |-> JoinLines([ i \in 1..Len(data.operations.file_changes) |->
                                   data.operations.file_changes[i].path ]),
      dead_ends |-> JoinLines([ i \in 1..Len(data.intent.dead_ends) |->
                                  data.intent.dead_ends[i].approach \o << ":", " " >>
                                      \o data.intent.dead_ends[i].reason ]),
      manifest_json |-> manifest_to_json(data.manifest) ]

\* SearchEngine::index_engram: nothing happens while the index directory
\* does not exist; else the document is added, whatever the index holds.
index_engram(idx, data) ==
    IF IsSome(idx) THEN Some(Append(Unwrap(idx), index_doc(data))) ELSE None

\* rebuild_index: a new index of what list() returns and read() can read.
rebuild_index(r) ==
    LET manifests == list(r, DefaultListOptions)
        found == SelectSeq(manifests,
                           LAMBDA m : resolve_engram_ref(r, m.id).tag = "ok")
    IN  Some([ i \in 1..Len(found) |->
                 index_doc(read_engram(Unwrap(resolve_engram_ref(r, found[i].id).oid))) ])

\* SearchEngine::ensure_index
ensure_index(idx, r) == IF IsSome(idx) THEN idx ELSE rebuild_index(r)

DocsBounded(idx) == IsSome(idx) => Len(Unwrap(idx)) <= MaxDocs

\* GitStorage::create: objects, then the ref (forced), then the pointer.
Create(data) ==
    /\ \/ EngramCount(refs) < MaxEngrams
       \/ engram_ref_name(data.manifest.id) \in DOMAIN refs
    /\ refs' = create_engram_ref(refs, data.manifest.id, create_engram_objects(data))
    /\ headFile' = update_head_pointer(headFile, data.manifest.id, data.manifest.created_at)
    /\ last' = [ op |-> "create", arg |-> data,
                 out |-> [ tag |-> "ok", id |-> data.manifest.id ] ]
    /\ UNCHANGED << remote, config >>
    /\ UNCHANGED << hookVars, pty, extVars >>

\* GitStorage::resolve with the alias "HEAD".
ResolveHead ==
    LET ptr == read_head_pointer(headFile)
        manifests == list(refs, DefaultListOptions)
    IN  IF IsSome(ptr) /\ resolve_engram_ref(refs, Unwrap(ptr)).tag = "ok"
        THEN /\ last' = [ op |-> "resolve", arg |-> HEAD, via |-> "pointer",
                          out |-> [ tag |-> "ok", id |-> Unwrap(ptr) ] ]
             /\ UNCHANGED storeVars
             /\ UNCHANGED << hookVars, pty, extVars >>
        ELSE IF manifests /= <<>>
        THEN /\ headFile' = update_head_pointer(headFile, manifests[1].id,
                                                manifests[1].created_at)
             /\ last' = [ op |-> "resolve", arg |-> HEAD, via |-> "scan",
                          out |-> [ tag |-> "ok", id |-> manifests[1].id ] ]
             /\ UNCHANGED << refs, remote, config >>
             /\ UNCHANGED << hookVars, pty, extVars >>
        ELSE /\ last' = [ op |-> "resolve", arg |-> HEAD, via |-> "scan",
                          out |-> [ tag |-> "not_found", id |-> <<>> ] ]
             /\ UNCHANGED storeVars
             /\ UNCHANGED << hookVars, pty, extVars >>

\* GitStorage::resolve with an identifier or a prefix.
Resolve(arg) ==
    LET res == resolve_engram_ref(refs, arg)
    IN  /\ last' = [ op |-> "resolve", arg |-> arg, via |-> "refs",
                     out |-> [ tag |-> res.tag, id |-> res.id ] ]
        /\ UNCHANGED storeVars
        /\ UNCHANGED << hookVars, pty, extVars >>

\* GitStorage::read.
Read(arg) ==
    LET res == resolve_engram_ref(refs, arg)
    IN  /\ last' = [ op |-> "read", arg |-> arg,
                     out |-> [ tag |-> res.tag, id |-> res.id,
                               data |-> IF res.tag = "ok"
                                        THEN Some(read_engram(Unwrap(res.oid)))
                                        ELSE None ] ]
        /\ UNCHANGED storeVars
        /\ UNCHANGED << hookVars, pty, extVars >>

\* GitStorage::delete (gc): remove the ref only.
Delete(arg) ==
    LET res == resolve_engram_ref(refs, arg)
    IN  /\ refs' = IF res.tag = "ok" THEN delete_engram_ref(refs, res.id) ELSE refs
        /\ last' = [ op |-> "delete", arg |-> arg,
                     out |-> [ tag |-> res.tag, id |-> res.id ] ]
        /\ UNCHANGED << headFile, remote, config >>
        /\ UNCHANGED << hookVars, pty, extVars >>

----------------------------------------------------------------------------
(* Sync (engram-protocol)                                                  *)

ENGRAM_FETCH_REFSPEC == "+refs/engrams/*:refs/engrams/*"
ENGRAM_PUSH_REFSPEC == "refs/engrams/*:refs/engrams/*"

InSeq(x, s) == \E i \in 1..Len(s) : s[i] = x

ensure_refspecs(cfg) ==
    [ fetch |-> IF InSeq(ENGRAM_FETCH_REFSPEC, cfg.fetch)
                THEN cfg.fetch ELSE Append(cfg.fetch, ENGRAM_FETCH_REFSPEC),
      push |-> IF InSeq(ENGRAM_PUSH_REFSPEC, cfg.push)
               THEN cfg.push ELSE Append(cfg.push, ENGRAM_PUSH_REFSPEC) ]

\* The model stops adding refspecs to a remote that has this many.
MaxRefspecs == 4

\* Remote names are sequences of characters; "origin" is kept as one token.
Origin == << "origin" >>

DefaultConfig ==
    Origin :> [ fetch |-> << "+refs/heads/*:refs/remotes/origin/*" >>, push |-> << >> ]

\* repo.find_remote fails for a name that has no section in the configuration.
find_remote(cfg, remote_name) == remote_name \in DOMAIN cfg

\* format!("remote.{remote_name}.fetch") and format!("remote.{remote_name}.push")
config_key(remote_name, kind) == << "remote", "." >> \o remote_name \o << ".", kind >>

\* One atom of a regular expression against one character: "." matches any
\* character, every other atom matches itself.
atom_matches(a, c) == a = "." \/ a = c

\* The pattern matches a prefix of s; "+" after an atom means one or more.
RECURSIVE match_here(_, _)
match_here(p, s) ==
    IF p = << >> THEN TRUE
    ELSE IF Len(p) >= 2 /\ p[2] = "+"
    THEN \E k \in 1..Len(s) :
            /\ \A i \in 1..k : atom_matches(p[1], s[i])
            /\ match_here(SubSeq(p, 3, Len(p)), SubSeq(s, k + 1, Len(s)))
    ELSE /\ s # << >>
         /\ atom_matches(p[1], s[1])
         /\ match_here(Tail(p), Tail(s))

\* config.entries(Some(glob)) iterates the variables whose name the regular
\* expression matches somewhere.
regex_search(p, s) == \E i \in 1..(Len(s) + 1) : match_here(p, SubSeq(s, i, Len(s)))

\* The entries loop of configure_remotes_filtered: some variable the key
\* matches has the value.
entry_exists(cfg, remote_name, kind, value) ==
    \E q \in DOMAIN cfg :
        /\ regex_search(config_key(remote_name, kind), config_key(q, kind))
        /\ InSeq(value, cfg[q][kind])

\* config.set_multivar(key, "^$", value): the values that match the pattern
\* (the empty ones) are replaced, and when none matches the value is added.
set_multivar(values, value) ==
    IF InSeq("", values)
    THEN [ i \in DOMAIN values |-> IF values[i] = "" THEN value ELSE values[i] ]
    ELSE Append(values, value)

\* The body of the loop of configure_remotes_filtered for one remote.
configure_remote(cfg, remote_name) ==
    LET fetched == IF entry_exists(cfg, remote_name, "fetch", ENGRAM_FETCH_REFSPEC)
                   THEN cfg
                   ELSE [ cfg EXCEPT ![remote_name].fetch =
                                        set_multivar(@, ENGRAM_FETCH_REFSPEC) ]
    IN  IF entry_exists(fetched, remote_name, "push", ENGRAM_PUSH_REFSPEC)
        THEN fetched
        ELSE [ fetched EXCEPT ![remote_name].push = set_multivar(@, ENGRAM_PUSH_REFSPEC) ]

\* GitStorage::configure_remotes_filtered over repo.remotes() in the order
\* the names are listed.
RECURSIVE configure_remotes_filtered(_, _, _)
configure_remotes_filtered(cfg, filter, remotes) ==
    IF remotes = << >> THEN cfg
    ELSE IF IsSome(filter) /\ Head(remotes) # Unwrap(filter)
    THEN configure_remotes_filtered(cfg, filter, Tail(remotes))
    ELSE configure_remotes_filtered(configure_remote(cfg, Head(remotes)), filter,
                                    Tail(remotes))

\* The orders in which repo.remotes() may list the names.
RemoteOrders(cfg) ==
    { o \in [ 1..Cardinality(DOMAIN cfg) -> DOMAIN cfg ] :
        \A i, j \in DOMAIN o : i # j => o[i] # o[j] }

\* GitStorage::init_with_remote
InitRepo(filter) ==
    /\ \E remotes \in RemoteOrders(config) :
          /\ config' = configure_remotes_filtered(config, filter, remotes)
          /\ \A r \in DOMAIN config : Len(config'[r].fetch) <= MaxRefspecs
    /\ last' = [ op |-> "init_with_remote", arg |-> filter, out |-> [ tag |-> "ok" ] ]
    /\ UNCHANGED << refs, headFile, remote >>
    /\ UNCHANGED << hookVars, pty, extVars >>

\* refspec::ensure_refspecs
EnsureRefspecs(remote_name) ==
    /\ IF find_remote(config, remote_name)
       THEN /\ config' = [ config EXCEPT ![remote_name] = ensure_refspecs(@) ]
            /\ last' = [ op |-> "ensure_refspecs", arg |-> [ remote |-> remote_name ],
                         out |-> [ tag |-> "ok",
                                   changed |-> ensure_refspecs(config[remote_name])
                                                   # config[remote_name] ] ]
       ELSE /\ config' = config
            /\ last' = [ op |-> "ensure_refspecs", arg |-> [ remote |-> remote_name ],
                         out |-> [ tag |-> "remote_not_found" ] ]
    /\ UNCHANGED << refs, headFile, remote >>
    /\ UNCHANGED << hookVars, pty, extVars >>

\* fetch_engrams: "+refs/engrams/*:refs/engrams/*" sets every local engram
\* ref the remote has to the remote's commit; nothing is pruned.
FetchEngrams(remote_name, dry_run) ==
    LET theirs == { n \in DOMAIN remote : IsEngramRef(n) }
        before == EngramCount(refs)
        merged == [ n \in DOMAIN refs \cup theirs |->
                      IF n \in theirs THEN remote[n] ELSE refs[n] ]
        arg == [ remote |-> remote_name, dry_run |-> dry_run ]
    IN  /\ IF ~find_remote(config, remote_name)
           THEN /\ UNCHANGED << config, refs >>
                /\ last' = [ op |-> "fetch", arg |-> arg,
                             out |-> [ tag |-> "remote_not_found" ] ]
           ELSE IF dry_run
           THEN /\ config' = [ config EXCEPT ![remote_name] = ensure_refspecs(@) ]
                /\ refs' = refs
                /\ last' = [ op |-> "fetch", arg |-> arg,
                             out |-> [ tag |-> "ok", refs_fetched |-> 0 ] ]
           ELSE /\ config' = [ config EXCEPT ![remote_name] = ensure_refspecs(@) ]
                /\ refs' = merged
                /\ last' = [ op |-> "fetch", arg |-> arg,
                             out |-> [ tag |-> "ok",
                                       refs_fetched |->
                                           IF EngramCount(merged) >= before
                                           THEN EngramCount(merged) - before ELSE 0 ] ]
        /\ UNCHANGED << headFile, remote >>
        /\ UNCHANGED << hookVars, pty, extVars >>

Fetch == FetchEngrams(Origin, FALSE)

\* The outcomes of remote.push for the pattern "refs/engrams/*": the library
\* expands it to the local engram refs, or it rejects a source that names no
\* object.  Which one depends on the libgit2 the program is linked with.
PatternPush == { "expanded", "rejected" }

\* push_engrams: "refs/engrams/*:refs/engrams/*" is not forced, so the push
\* fails when the remote holds another commit under one of the names.
PushEngrams(remote_name, dry_run) ==
    \E pattern_push \in PatternPush :
    LET ours == { n \in DOMAIN refs : IsEngramRef(n) }
        conflict == \/ pattern_push = "rejected"
                    \/ \E n \in ours : n \in DOMAIN remote /\ remote[n] # refs[n]
        pushed == [ n \in DOMAIN remote \cup ours |->
                      IF n \in DOMAIN remote THEN remote[n] ELSE refs[n] ]
        arg == [ remote |-> remote_name, dry_run |-> dry_run ]
    IN  /\ IF ~find_remote(config, remote_name)
           THEN /\ UNCHANGED << config, remote >>
                /\ last' = [ op |-> "push", arg |-> arg,
                             out |-> [ tag |-> "remote_not_found" ] ]
           ELSE IF dry_run
           THEN /\ config' = [ config EXCEPT ![remote_name] = ensure_refspecs(@) ]
                /\ remote' = remote
                /\ last' = [ op |-> "push", arg |-> arg,
                             out |-> [ tag |-> "ok", refs_pushed |-> EngramCount(refs) ] ]
           ELSE IF conflict
           THEN /\ config' = [ config EXCEPT ![remote_name] = ensure_refspecs(@) ]
                /\ remote' = remote
                /\ last' = [ op |-> "push", arg |-> arg, out |-> [ tag |-> "push_failed" ] ]
           ELSE /\ config' = [ config EXCEPT ![remote_name] = ensure_refspecs(@) ]
                /\ remote' = pushed
                /\ last' = [ op |-> "push", arg |-> arg,
                             out |-> [ tag |-> "ok", refs_pushed |-> EngramCount(refs) ] ]
        /\ UNCHANGED << refs, headFile >>
        /\ UNCHANGED << hookVars, pty, extVars >>

\* Another clone stores an engram and pushes it to the shared remote.
OtherClonePush(data) ==
    /\ EngramCount(remote) < MaxRemote
    /\ engram_ref_name(data.manifest.id) \notin DOMAIN remote
    /\ remote' = create_engram_ref(remote, data.manifest.id, create_engram_objects(data))
    /\ last' = [ op |-> "remote_push", arg |-> data.manifest.id,
                 out |-> [ tag |-> "ok" ] ]
    /\ UNCHANGED << refs, headFile, config >>
    /\ UNCHANGED << hookVars, pty, extVars >>

----------------------------------------------------------------------------
(* The store specification                                                 *)

DefaultUsage ==
    [ input_tokens |-> 0, output_tokens |-> 0, cache_read_tokens |-> 0,
      cache_write_tokens |-> 0, total_tokens |-> 0, cost_usd |-> None ]

DefaultLineage ==
    [ parent_engram |-> None, child_engrams |-> <<>>, related_engrams |-> <<>>,
      git_commits |-> <<>>, branch |-> None ]

DefaultOperations ==
    [ tool_calls |-> <<>>, file_changes |-> <<>>, shell_commands |-> <<>> ]

\* An EngramData as the SDK or a caller of GitStorage::create builds it.
MakeData(id, created_at, agent, intent) ==
    [ manifest |->
        [ id |-> id, version |-> 1, created_at |-> created_at,
          finished_at |-> None, agent |-> [ name |-> agent, model |-> None ],
          git_commits |-> <<>>, token_usage |-> DefaultUsage, summary |-> None,
          tags |-> <<>>, capture_mode |-> "sdk", source_hash |-> None ],
      intent |-> intent,
      transcript |-> [ entries |-> <<>> ],
      operations |-> DefaultOperations,
      lineage |-> DefaultLineage ]

PlainIntent ==
    [ original_request |-> << "x" >>, interpreted_goal |-> None,
      summary |-> None, dead_ends |-> <<>>, decisions |-> <<>> ]

\* What this clone creates, and what another clone pushes to the remote.
StoreInputs ==
    { MakeData(id, t, << "aider" >>, PlainIntent) : id \in Ids, t \in Times }
RemoteInputs ==
    { MakeData(id, t, << "claude", "-code" >>, PlainIntent) : id \in Ids, t \in Times }

\* The hooks directory (hooks/installer.rs).  A file is None or Some(text);
\* a text is a sequence of lines.
HOOKS == << "prepare-commit-msg", "post-commit" >>

HookNames == { HOOKS[i] : i \in DOMAIN HOOKS }

HandlerCall == "engram hook-handler"

\* generate_hook_script: the chain to the backup when there is one, then the
\* call of the hook handler.
generate_hook_script(hook_name, has_backup) ==
    << "#!/bin/sh", "# Engram git hook" >>
    \o (IF has_backup THEN << "# Run original hook", ".pre-engram" >> ELSE << >>)
    \o << "# Run engram hook handler", HandlerCall, hook_name >>

\* content.contains("engram hook-handler")
MentionsHandler(content) == InSeq(HandlerCall, content)

\* The body of uninstall_hooks' loop for one hook: f.hook is <hook>, f.backup
\* is <hook>.pre-engram.
uninstall_hook(f) ==
    LET removed == IF IsSome(f.hook) /\ MentionsHandler(Unwrap(f.hook))
                   THEN [ f EXCEPT !.hook = None ]
                   ELSE f
    IN  IF IsSome(removed.backup)
        THEN [ hook |-> removed.backup, backup |-> None ]
        ELSE removed

\* The body of install_hooks' loop for one hook.
install_hook(f, hook_name) ==
    LET kept == IF IsSome(f.hook) /\ ~MentionsHandler(Unwrap(f.hook))
                THEN [ hook |-> None, backup |-> f.hook ]
                ELSE f
    IN  [ hook |-> Some(generate_hook_script(hook_name, IsSome(kept.backup))),
          backup |-> kept.backup ]

\* A repository without hooks.  `before` remembers the directory as it was
\* when the current round of installs began; `round` is "none", "installed"
\* or "uninstalled".
NoHookFiles ==
    [ dir    |-> [ h \in HookNames |-> [ hook |-> None, backup |-> None ] ],
      before |-> [ h \in HookNames |-> [ hook |-> None, backup |-> None ] ],
      round  |-> "none" ]

NoOp == [ op |-> "init", arg |-> <<>>, out |-> [ tag |-> "ok" ] ]

\* One post-commit hook process per commit of the host repository.
HookIds == 1..MaxCommits

\* Before anything runs: no hook process, no `engram record`, no capture.
IdleHook ==
    [ pc |-> "idle", session |-> None, sha |-> <<>>, current |-> None, result |-> "" ]
\* The processes of the model that create engrams in one repository at once.
MaxCreators == 2
Creators == 1..MaxCreators
IdleCreator == [ pc |-> "idle", data |-> None ]

IdleRec == [ pc |-> "idle", session_id |-> <<>>, runs |-> 0 ]
IdlePty ==
    [ main |-> "idle", reader |-> "idle", writer |-> "idle", child |-> "none",
      produced |-> 0, out |-> 0, capture |-> 0,
      typed |-> 0, stdin |-> 0, stdin_open |-> TRUE, sent |-> 0,
      shutdown |-> FALSE ]

\* Nothing outside the repository exists yet.
ExtInit ==
    /\ peer = << >>
    /\ index = None
    /\ creators = [ p \in Creators |-> IdleCreator ]

Init ==
    /\ refs = << >>
    /\ headFile = None
    /\ remote = << >>
    /\ config = DefaultConfig
    /\ last = NoOp
    /\ sessionFile = None
    /\ fileLock = None
    /\ msgFile = << >>
    /\ git = [ pc |-> "idle", head |-> None, log |-> << >> ]
    /\ hooks = [ h \in HookIds |-> IdleHook ]
    /\ rec = IdleRec
    /\ pty = IdlePty
    /\ hookFiles = NoHookFiles
    /\ ExtInit

Next ==
    \/ \E data \in StoreInputs : Create(data)
    \/ \E id \in Ids : Delete(id)
    \/ ResolveHead
    \/ Fetch
    \/ \E data \in RemoteInputs : OtherClonePush(data)

Spec == Init /\ [][Next]_vars


----------------------------------------------------------------------------
(* Import (engram-cli commands/import.rs, engram-capture import/)          *)

\* SHA-256 keeps distinct inputs distinct.
Sha256(x) == << "sha256", x >>

\* AiderImporter::import_history: the i-th session (from 0) of a file is
\* hashed as SHA256("<file_hash>:<i>").
aider_session_hash(content, i) == Sha256(<< Sha256(content), ":", i >>)

\* ClaudeCodeImporter::import_session: the hash of the file.
claude_session_hash(content) == Sha256(content)

\* An import that never looks for an earlier import of the same source.
check_duplicate_never(r, data) == None

check_duplicate(r, data) ==
    IF IsSome(data.manifest.source_hash)
    THEN find_by_source_hash(r, Unwrap(data.manifest.source_hash))
    ELSE None

\* Token counters are u64.  The model keeps the width small.
TokenBits == 3
U64Modulus == 2 ^ TokenBits
U64Max == U64Modulus - 1

\* a + b on u64: the sum modulo 2^64, and whether it overflowed.  A build
\* with overflow checks panics on an overflow, a build without them wraps.
U64Add(a, b) == [ value |-> (a + b) % U64Modulus, overflow |-> a + b >= U64Modulus ]

unwrap_or(opt, default) == IF IsSome(opt) THEN Unwrap(opt) ELSE default

\* A total computed from the input and the output counters only, as if the
\* cache counters were not there.
claude_total_without_cache(u) ==
    LET s1 == U64Add(u.input_tokens, u.output_tokens)
    IN  [ usage |-> [ u EXCEPT !.total_tokens = s1.value ],
          overflowed |-> s1.overflow ]

\* claude_code.rs: token_usage.total_tokens = input + output + cache_read
\* + cache_write, after the loop over the messages.
claude_total(u) ==
    LET s1 == U64Add(u.input_tokens, u.output_tokens)
        s2 == U64Add(s1.value, u.cache_read_tokens)
        s3 == U64Add(s2.value, u.cache_write_tokens)
    IN  [ usage |-> [ u EXCEPT !.total_tokens = s3.value ],
          overflowed |-> s1.overflow \/ s2.overflow \/ s3.overflow ]

\* claude_code.rs: the four counters accumulate over the messages that carry
\* a usage record.
RECURSIVE claude_accumulate(_, _)
claude_accumulate(st, usages) ==
    IF usages = << >> THEN st
    ELSE LET usage == Head(usages)
             i == U64Add(st.usage.input_tokens, unwrap_or(usage.input_tokens, 0))
             o == U64Add(st.usage.output_tokens, unwrap_or(usage.output_tokens, 0))
             r == U64Add(st.usage.cache_read_tokens,
                         unwrap_or(usage.cache_read_input_tokens, 0))
             w == U64Add(st.usage.cache_write_tokens,
                         unwrap_or(usage.cache_creation_input_tokens, 0))
         IN  claude_accumulate(
                 [ usage |-> [ st.usage EXCEPT !.input_tokens = i.value,
                                               !.output_tokens = o.value,
                                               !.cache_read_tokens = r.value,
                                               !.cache_write_tokens = w.value ],
                   overflowed |-> st.overflowed \/ i.overflow \/ o.overflow
                                      \/ r.overflow \/ w.overflow ],
                 Tail(usages))

claude_token_usage(usages) ==
    LET acc == claude_accumulate([ usage |-> DefaultUsage, overflowed |-> FALSE ], usages)
        tot == claude_total(acc.usage)
    IN  [ usage |-> tot.usage, overflowed |-> acc.overflowed \/ tot.overflowed ]

\* aider.rs parse_token_line over the "Tokens:" lines of one session: the
\* sent and received counts that extract_token_count finds are added up.
RECURSIVE aider_accumulate(_, _)
aider_accumulate(st, token_lines) ==
    IF token_lines = << >> THEN st
    ELSE LET line == Head(token_lines)
             sent == U64Add(st.sent, unwrap_or(line.sent, 0))
             received == U64Add(st.received, unwrap_or(line.received, 0))
         IN  aider_accumulate(
                 [ sent |-> sent.value, received |-> received.value,
                   overflowed |-> st.overflowed \/ sent.overflow \/ received.overflow ],
                 Tail(token_lines))

\* aider.rs: TokenUsage { input: sent, output: received, total: sent +
\* received, ..Default::default() }
aider_token_usage(token_lines) ==
    LET acc == aider_accumulate([ sent |-> 0, received |-> 0, overflowed |-> FALSE ],
                                token_lines)
        total == U64Add(acc.sent, acc.received)
    IN  [ usage |-> [ DefaultUsage EXCEPT !.input_tokens = acc.sent,
                                          !.output_tokens = acc.received,
                                          !.total_tokens = total.value ],
          overflowed |-> acc.overflowed \/ total.overflow ]

\* What a parser returns for one session: a fresh identifier, the agent of
\* the format, capture mode "import", and the source hash put on afterwards.
ImportedData(id, created_at, agent, hash, token_usage) ==
    LET d == MakeData(id, created_at, agent, PlainIntent)
    IN  [ d EXCEPT !.manifest.capture_mode = "import",
                   !.manifest.token_usage = token_usage,
                   !.manifest.source_hash = Some(hash) ]

\* The loop of `run` over the parsed sessions: skip a duplicate, else
\* create.  st = the refs, the pointer file and the report so far.
RECURSIVE ImportLoop(_, _)
ImportLoop(st, engrams) ==
    IF engrams = <<>> THEN st
    ELSE LET data == Head(engrams)
             dup == check_duplicate(st.refs, data)
         IN  IF IsSome(dup)
             THEN ImportLoop([ st EXCEPT !.report =
                                   Append(@, [ did |-> "skipped", id |-> Unwrap(dup) ]) ],
                             Tail(engrams))
             ELSE ImportLoop(
                     [ refs |-> create_engram_ref(st.refs, data.manifest.id,
                                                  create_engram_objects(data)),
                       head |-> update_head_pointer(st.head, data.manifest.id,
                                                    data.manifest.created_at),
                       report |-> Append(st.report,
                                         [ did |-> "imported", id |-> data.manifest.id ]) ],
                     Tail(engrams))

\* try_index after each engram the loop stored: the incremental update of
\* the search index, in the order of the sessions.
RECURSIVE try_index(_, _, _)
try_index(idx, engrams, report) ==
    IF engrams = << >> THEN idx
    ELSE IF InSeq([ did |-> "imported", id |-> Head(engrams).manifest.id ], report)
    THEN try_index(index_engram(idx, Head(engrams)), Tail(engrams), report)
    ELSE try_index(idx, Tail(engrams), report)

\* EngramId::new(): identifiers no stored engram has, all different.
FreshIds(n) ==
    { ids \in [ 1..n -> { i \in Ids : ~(engram_ref_name(i) \in DOMAIN refs) } ] :
        \A i, j \in 1..n : i /= j => ids[i] /= ids[j] }

\* Utc::now() when an Aider history is parsed.
ImportTimes == { 1 }

\* `engram import --format aider <file>` (not a dry run).  Parsing comes
\* first: a panic in it ends the process before anything is stored.
ImportAider(file) ==
    \E ids \in FreshIds(file.sessions), now \in ImportTimes, overflow_checks \in BOOLEAN :
        LET tok == [ i \in 1..file.sessions |-> aider_token_usage(file.token_lines[i]) ]
            engrams == [ i \in 1..file.sessions |->
                           ImportedData(ids[i], now, << "aider" >>,
                                        aider_session_hash(file.content, i - 1),
                                        tok[i].usage) ]
            done == ImportLoop([ refs |-> refs, head |-> headFile, report |-> <<>> ],
                               engrams)
        IN  IF overflow_checks /\ \E i \in 1..file.sessions : tok[i].overflowed
            THEN /\ last' = [ op |-> "import", arg |-> << "aider", file.content >>,
                              out |-> [ tag |-> "panic" ] ]
                 /\ UNCHANGED storeVars
                 /\ UNCHANGED << hookVars, pty, extVars >>
            ELSE /\ refs' = done.refs
                 /\ headFile' = done.head
                 /\ last' = [ op |-> "import", arg |-> << "aider", file.content >>,
                              out |-> [ tag |-> "ok", report |-> done.report ] ]
                 /\ index' = try_index(index, engrams, done.report)
                 /\ DocsBounded(index')
                 /\ UNCHANGED << remote, config >>
                 /\ UNCHANGED << hookVars, pty, peer, creators >>

\* `engram import --format claude-code <file>` (not a dry run).
ImportClaude(file) ==
    \E ids \in FreshIds(1), overflow_checks \in BOOLEAN :
        LET tok == claude_token_usage(file.usages)
            data == ImportedData(ids[1], file.first_timestamp, << "claude", "-code" >>,
                                 claude_session_hash(file.content), tok.usage)
            done == ImportLoop([ refs |-> refs, head |-> headFile, report |-> <<>> ],
                               << data >>)
        IN  IF overflow_checks /\ tok.overflowed
            THEN /\ last' = [ op |-> "import", arg |-> << "claude-code", file.content >>,
                              out |-> [ tag |-> "panic" ] ]
                 /\ UNCHANGED storeVars
                 /\ UNCHANGED << hookVars, pty, extVars >>
            ELSE /\ refs' = done.refs
                 /\ headFile' = done.head
                 /\ last' = [ op |-> "import", arg |-> << "claude-code", file.content >>,
                              out |-> [ tag |-> "ok", report |-> done.report ] ]
                 /\ index' = try_index(index, << data >>, done.report)
                 /\ DocsBounded(index')
                 /\ UNCHANGED << remote, config >>
                 /\ UNCHANGED << hookVars, pty, peer, creators >>

\* Vendor files: an Aider history with 1..MaxSessions sessions, and a
\* Claude Code session file.
AiderFiles ==
    { [ content |-> << "aider-history", n >>, sessions |-> n,
        token_lines |-> [ i \in 1..n |-> << >> ] ] : n \in 1..MaxSessions }
ClaudeFiles ==
    { [ content |-> << "claude-session", 1 >>, first_timestamp |-> 1, usages |-> << >> ] }

ImportNext ==
    \/ \E f \in AiderFiles : ImportAider(f)
    \/ \E f \in ClaudeFiles : ImportClaude(f)
    \/ \E id \in Ids : Delete(id)

ImportSpec == Init /\ [][ImportNext]_vars

----------------------------------------------------------------------------
(* The active-session file (engram-core hooks/session.rs)                  *)

ActiveSession_new(engram_id, agent, now) ==
    [ engram_id |-> engram_id, agent |-> agent, started_at |-> now,
      commits |-> << >>, token_usage |-> DefaultUsage ]

\* serde_json::to_string_pretty: the file holds one JSON document.
session_to_json(s) ==
    << JsonObject(
         [ s EXCEPT !.started_at = to_rfc3339(@),
                    !.agent = JsonObject(@, {"model"}, {"model"}),
                    !.token_usage = JsonObject(@, {"cost_usd"}, {"cost_usd"}) ],
         {}, {}) >>

\* serde_json::from_str(..).ok(): an empty file is not a JSON document.
session_from_json(text) ==
    IF Len(text) /= 1 THEN None
    ELSE LET json == text[1]
             ts == parse_rfc3339(json.started_at)
         IN  IF ~IsSome(ts) THEN None
             ELSE Some([ json EXCEPT
                           !.started_at = Unwrap(ts),
                           !.agent = JsonParse(@, {"name", "model"}, {"model"}),
                           !.token_usage =
                               JsonParse(@, DOMAIN DefaultUsage, {"cost_usd"}) ])

\* ActiveSession::load on a file nobody holds the exclusive lock on.
load(file) == IF IsSome(file) THEN session_from_json(Unwrap(file)) ELSE None

\* An add_commit that trusts the session it loaded before taking the lock.
reread_stale(self, data) == Some(self)

\* add_commit, "Re-read under lock to get latest state".
reread_under_lock(self, data) == session_from_json(data)

----------------------------------------------------------------------------
(* prepare-commit-msg (engram-core hooks/handlers.rs)                      *)

ends_with(s, c) == Len(s) > 0 /\ s[Len(s)] = c

Digit(d) == << "0", "1", "2", "3", "4", "5", "6", "7", "8", "9" >>[d + 1]

\* u64 -> decimal text.
RECURSIVE u64_to_string(_)
u64_to_string(n) ==
    IF n < 10 THEN << Digit(n) >> ELSE Append(u64_to_string(n \div 10), Digit(n % 10))

\* The Engram-* lines appended for a session.
Trailers(session) ==
    << "Engram-Id:", " " >> \o session.engram_id \o << "\n" >>
    \o << "Engram-Agent:", " " >> \o session.agent.name
    \o (IF IsSome(session.agent.model)
        THEN << "/" >> \o Unwrap(session.agent.model) ELSE << >>)
    \o << "\n" >>
    \o << "Engram-Tokens:", " " >> \o u64_to_string(session.token_usage.total_tokens)
    \o << "\n" >>
    \o (IF IsSome(session.token_usage.cost_usd)
        THEN << "Engram-Cost:", " ", "$" >> \o Unwrap(session.token_usage.cost_usd)
             \o << "\n" >>
        ELSE << >>)

\* A hook that appends the trailers without looking for earlier ones.
handle_prepare_commit_msg_always(msg, session) ==
    IF ~IsSome(session) THEN msg
    ELSE (IF ends_with(msg, "\n") THEN msg ELSE Append(msg, "\n"))
         \o << "\n" >> \o Trailers(Unwrap(session))

\* The message file after the hook, given what ActiveSession::load returned.
handle_prepare_commit_msg(msg, session) ==
    IF ~IsSome(session) THEN msg
    ELSE IF Contains(msg, << "Engram-Id:" >>) THEN msg
    ELSE (IF ends_with(msg, "\n") THEN msg ELSE Append(msg, "\n"))
         \o << "\n" >> \o Trailers(Unwrap(session))

\* Git (or the user) writes the message of the commit being made.
WriteMsg(m) ==
    /\ Len(git.log) < MaxCommits
    /\ msgFile' = m
    /\ git' = [ git EXCEPT !.pc = "message" ]
    /\ last' = [ op |-> "write-msg", arg |-> m, out |-> [ tag |-> "ok" ] ]
    /\ UNCHANGED << storeVars, sessionFile, fileLock, hooks, rec, pty, hookFiles, extVars >>

\* `engram hook prepare-commit-msg <file>`; load waits for the shared lock.
PrepareCommitMsg ==
    /\ git.pc /= "idle"
    /\ fileLock = None
    /\ msgFile' = handle_prepare_commit_msg(msgFile, load(sessionFile))
    /\ git' = [ git EXCEPT !.pc = "prepared" ]
    /\ last' = [ op |-> "prepare-commit-msg", arg |-> msgFile,
                 out |-> [ tag |-> "ok", session |-> load(sessionFile) ] ]
    /\ UNCHANGED << storeVars, sessionFile, fileLock, hooks, rec, pty, hookFiles, extVars >>

\* Git creates the commit from the message file, moves HEAD and starts the
\* post-commit hook.
CommitCreate ==
    /\ git.pc = "prepared"
    /\ Len(git.log) < MaxCommits
    /\ LET n == Len(git.log) + 1
           sha == << "c", Digit(n) >>
       IN  /\ git' = [ pc |-> "idle", head |-> Some(sha),
                       log |-> Append(git.log, [ sha |-> sha, message |-> msgFile ]) ]
           /\ hooks' = [ hooks EXCEPT ![n] = [ IdleHook EXCEPT !.pc = "load" ] ]
           /\ last' = [ op |-> "commit", arg |-> sha, out |-> [ tag |-> "ok" ] ]
    /\ UNCHANGED << storeVars, sessionFile, fileLock, msgFile, rec, pty, hookFiles, extVars >>

----------------------------------------------------------------------------
(* post-commit and ActiveSession::add_commit, one step per file operation  *)

HookStep(h, from) == hooks[h].pc = from

\* handle_post_commit: ActiveSession::load; without a session the hook is done.
PostCommitLoad(h) ==
    /\ HookStep(h, "load")
    /\ fileLock = None
    /\ hooks' = [ hooks EXCEPT ![h] =
                    IF IsSome(load(sessionFile))
                    THEN [ @ EXCEPT !.pc = "head", !.session = load(sessionFile) ]
                    ELSE [ @ EXCEPT !.pc = "done", !.result = "no-session" ] ]
    /\ UNCHANGED << storeVars, last, sessionFile, fileLock, msgFile, git, rec, pty, hookFiles, extVars >>

\* handle_post_commit: the SHA is whatever HEAD points at now.
PostCommitHead(h) ==
    /\ HookStep(h, "head")
    /\ hooks' = [ hooks EXCEPT ![h] =
                    IF IsSome(git.head)
                    THEN [ @ EXCEPT !.pc = "open", !.sha = Unwrap(git.head) ]
                    ELSE [ @ EXCEPT !.pc = "done", !.result = "no-head" ] ]
    /\ UNCHANGED << storeVars, last, sessionFile, fileLock, msgFile, git, rec, pty, hookFiles, extVars >>

\* add_commit: open the file (an error if it is gone) and wait for the
\* exclusive lock.
AddCommitOpen(h) ==
    /\ HookStep(h, "open")
    /\ IF IsSome(sessionFile)
       THEN /\ fileLock = None
            /\ fileLock' = Some(h)
            /\ hooks' = [ hooks EXCEPT ![h].pc = "reread" ]
       ELSE /\ hooks' = [ hooks EXCEPT ![h].pc = "done", ![h].result = "error" ]
            /\ UNCHANGED fileLock
    /\ UNCHANGED << storeVars, last, sessionFile, msgFile, git, rec, pty, hookFiles, extVars >>

\* add_commit: read the file under the lock, parse it and push the SHA; a
\* parse error returns, and closing the file drops the lock.
AddCommitReread(h) ==
    /\ HookStep(h, "reread")
    /\ fileLock = Some(h)
    /\ LET current == reread_under_lock(Unwrap(hooks[h].session), Unwrap(sessionFile))
       IN  IF IsSome(current)
           THEN /\ hooks' = [ hooks EXCEPT
                                ![h].pc = "truncate",
                                ![h].current =
                                    Some([ Unwrap(current) EXCEPT
                                             !.commits = Append(@, hooks[h].sha) ]) ]
                /\ UNCHANGED fileLock
           ELSE /\ hooks' = [ hooks EXCEPT ![h].pc = "done", ![h].result = "error" ]
                /\ fileLock' = None
    /\ UNCHANGED << storeVars, last, sessionFile, msgFile, git, rec, pty, hookFiles, extVars >>

\* add_commit: file.set_len(0).
AddCommitTruncate(h) ==
    /\ HookStep(h, "truncate")
    /\ fileLock = Some(h)
    /\ sessionFile' = Some(<< >>)
    /\ hooks' = [ hooks EXCEPT ![h].pc = "write" ]
    /\ UNCHANGED << storeVars, last, fileLock, msgFile, git, rec, pty, hookFiles, extVars >>

\* add_commit: write the session with the SHA pushed, from offset 0.
AddCommitWrite(h) ==
    /\ HookStep(h, "write")
    /\ fileLock = Some(h)
    /\ sessionFile' = Some(session_to_json(Unwrap(hooks[h].current)))
    /\ hooks' = [ hooks EXCEPT ![h].pc = "unlock" ]
    /\ UNCHANGED << storeVars, last, fileLock, msgFile, git, rec, pty, hookFiles, extVars >>

\* add_commit: unlock and return Ok.
AddCommitUnlock(h) ==
    /\ HookStep(h, "unlock")
    /\ fileLock = Some(h)
    /\ fileLock' = None
    /\ hooks' = [ hooks EXCEPT ![h].pc = "done", ![h].result = "appended",
                               ![h].session = hooks[h].current ]
    /\ last' = [ op |-> "post-commit", arg |-> hooks[h].sha, out |-> [ tag |-> "ok" ] ]
    /\ UNCHANGED << storeVars, sessionFile, msgFile, git, rec, pty, hookFiles, extVars >>

PostCommitStep(h) ==
    \/ PostCommitLoad(h)
    \/ PostCommitHead(h)
    \/ AddCommitOpen(h)
    \/ AddCommitReread(h)
    \/ AddCommitTruncate(h)
    \/ AddCommitWrite(h)
    \/ AddCommitUnlock(h)

----------------------------------------------------------------------------
(* `engram record` (engram-cli commands/record.rs, capture session/builder) *)

\* What PtySession::run hands back, as far as the builder uses it.
Captured(start_time) ==
    [ start_time |-> start_time, end_time |-> start_time, exit_code |-> Some(0),
      command |-> << "aider" >>, args |-> << >>, file_changes |-> << >> ]

\* SessionBuilder::build, given the identifier EngramId::new() returned.
SessionBuilder_build(id, agent_info, captured, git_commits) ==
    LET summary ==
            Some(<< "Ran", " " >> \o captured.command \o << " ", "(exit code:", " " >>
                 \o (IF IsSome(captured.exit_code)
                     THEN u64_to_string(Unwrap(captured.exit_code))
                     ELSE << "unknown" >>)
                 \o << ")" >>)
        line == captured.command \o << " " >> \o Concat(captured.args)
    IN  [ manifest |->
            [ id |-> id, version |-> 1, created_at |-> captured.start_time,
              finished_at |-> Some(captured.end_time),
              agent |-> agent_info, git_commits |-> git_commits,
              token_usage |-> DefaultUsage, summary |-> summary, tags |-> << >>,
              capture_mode |-> "wrapper", source_hash |-> None ],
          intent |->
            [ original_request |-> captured.command, interpreted_goal |-> None,
              summary |-> summary, dead_ends |-> << >>, decisions |-> << >> ],
          transcript |->
            [ entries |-> << [ timestamp |-> captured.start_time, role |-> "system",
                               content |-> [ type |-> "text",
                                             text |-> << "PTY session:", " " >> \o line ],
                               token_count |-> None ] >> ],
          operations |->
            [ tool_calls |-> << >>, file_changes |-> captured.file_changes,
              shell_commands |-> << [ timestamp |-> captured.start_time,
                                      command |-> line,
                                      exit_code |-> captured.exit_code,
                                      duration_ms |-> Some(0) ] >> ],
          lineage |-> [ DefaultLineage EXCEPT !.git_commits = git_commits ] ]

\* Utc::now() when the session starts.
SessionTimes == { 1 }

\* record.rs 52-61, first half of save: the session file is created or
\* truncated by the open, before any lock is taken.
RecordStartOpen ==
    /\ rec.pc = "idle"
    /\ rec.runs < MaxRuns
    /\ \E id \in Ids :
         rec' = [ pc |-> "saving", session_id |-> id, runs |-> rec.runs + 1 ]
    /\ sessionFile' = Some(<< >>)
    /\ UNCHANGED << storeVars, last, fileLock, msgFile, git, hooks, pty, hookFiles, extVars >>

\* Second half of save: exclusive lock, write, unlock.  The wrapped command
\* runs from here to RecordEnd.
RecordStartWrite ==
    /\ rec.pc = "saving"
    /\ fileLock = None
    /\ \E now \in SessionTimes :
         sessionFile' = Some(session_to_json(
                            ActiveSession_new(rec.session_id,
                                              [ name |-> << "aider" >>, model |-> None ],
                                              now)))
    /\ rec' = [ rec EXCEPT !.pc = "running" ]
    /\ last' = [ op |-> "record-start", arg |-> rec.session_id, out |-> [ tag |-> "ok" ] ]
    /\ UNCHANGED << storeVars, fileLock, msgFile, git, hooks, pty, hookFiles, extVars >>

\* record.rs 73-94, after PtySession::run returned: load the commits, remove
\* the session file, build the engram and store it.
RecordEnd ==
    /\ rec.pc = "running"
    /\ fileLock = None
    /\ EngramCount(refs) < MaxEngrams
    /\ \E ids \in FreshIds(1), start_time \in SessionTimes :
         LET commits == IF IsSome(load(sessionFile))
                        THEN Unwrap(load(sessionFile)).commits ELSE << >>
             data == SessionBuilder_build(ids[1],
                                          [ name |-> << "aider" >>, model |-> None ],
                                          Captured(start_time), commits)
         IN  /\ refs' = create_engram_ref(refs, ids[1], create_engram_objects(data))
             /\ headFile' = update_head_pointer(headFile, ids[1], data.manifest.created_at)
             /\ last' = [ op |-> "record", arg |-> rec.session_id,
                          out |-> [ tag |-> "ok", id |-> ids[1], commits |-> commits ] ]
             /\ index' = index_engram(index, data)
             /\ DocsBounded(index')
    /\ sessionFile' = None
    /\ rec' = [ IdleRec EXCEPT !.runs = rec.runs ]
    /\ UNCHANGED << remote, config, fileLock, msgFile, git, hooks, pty, hookFiles, peer, creators >>

\* record.rs 70-71: PtySession::start or PtySession::run returned an error
\* (the snapshot of the working tree, openpty, the spawn, the wait), and
\* `?` returns it from run() at once.
PtyFailures == { "snapshot", "open_pty", "spawn", "wait" }

RecordPtyFails ==
    /\ rec.pc = "running"
    /\ \E cause \in PtyFailures :
         last' = [ op |-> "record", arg |-> rec.session_id,
                   out |-> [ tag |-> "pty_failed", cause |-> cause ] ]
    /\ rec' = [ IdleRec EXCEPT !.runs = rec.runs ]
    /\ UNCHANGED << storeVars, sessionFile, fileLock, msgFile, git, hooks, pty,
                    hookFiles, extVars >>

\* record.rs 73-94 when storage.create returns an error: the commits were
\* loaded and the session file removed before the engram was built.
RecordStoreFails ==
    /\ rec.pc = "running"
    /\ fileLock = None
    /\ last' = [ op |-> "record", arg |-> rec.session_id,
                 out |-> [ tag |-> "store_failed", cause |-> "create" ] ]
    /\ sessionFile' = None
    /\ rec' = [ IdleRec EXCEPT !.runs = rec.runs ]
    /\ UNCHANGED << storeVars, fileLock, msgFile, git, hooks, pty, hookFiles, extVars >>

----------------------------------------------------------------------------
(* Specifications for resolve and for the store/read round trip            *)

ResolveInputs == { MakeData(id, 1, << "aider" >>, PlainIntent) : id \in Ids }

ResolveNext ==
    \/ \E data \in ResolveInputs : Create(data)
    \/ \E arg \in PrefixArgs : Delete(arg)
    \/ \E arg \in PrefixArgs : Resolve(arg)

ResolveSpec == Init /\ [][ResolveNext]_vars

TextTokens == { "x", " ", "\n", HdrSummary, ItemSep }

\* Every text of at most MaxTextLen tokens.
Texts == UNION { [ 1..n -> TextTokens ] : n \in 0..MaxTextLen }
ShortTexts == UNION { [ 1..n -> TextTokens ] : n \in 0..1 }

\* Intents that vary one field of PlainIntent at a time.
RoundTripIntents ==
    { [ PlainIntent EXCEPT !.original_request = t ] : t \in Texts }
    \cup { [ PlainIntent EXCEPT !.interpreted_goal = Some(t) ] : t \in Texts }
    \cup { [ PlainIntent EXCEPT !.summary = Some(t) ] : t \in Texts }
    \cup { [ PlainIntent EXCEPT !.dead_ends = << [ approach |-> a, reason |-> r ] >> ] :
             a \in ShortTexts, r \in ShortTexts }
    \cup { [ PlainIntent EXCEPT !.decisions =
                << [ description |-> << "x" >>, rationale |-> << "x" >> ],
                   [ description |-> a, rationale |-> r ] >> ] :
             a \in ShortTexts, r \in ShortTexts }

RoundTripInputs ==
    { MakeData(<< "a", "a", "b" >>, 1, << "aider" >>, intent) : intent \in RoundTripIntents }

RoundTripNext ==
    \/ \E data \in RoundTripInputs : Create(data)
    \/ \E arg \in { << "a", "a", "b" >>, << "a", "a" >> } : Read(arg)

RoundTripSpec == Init /\ [][RoundTripNext]_vars

----------------------------------------------------------------------------
(* Claims about the store, checked under Spec                              *)

Stored(r, id) == engram_ref_name(id) \in DOMAIN r

\* C3: once an engram is stored under an identifier, every later read of
\* that identifier returns the same record for as long as it is not
\* deleted -- no step (create, resolve, fetch, ...) changes what a stored
\* identifier reads as.
C3_RecordImmutable ==
    [][ \A id \in Ids :
          (Stored(refs, id) /\ Stored(refs', id))
              => read_engram(refs'[engram_ref_name(id)])
                     = read_engram(refs[engram_ref_name(id)]) ]_vars

\* C5: whenever resolve("HEAD") has just answered and engrams are stored,
\* the answer is a stored engram and none is more recent than it.
C5_HeadIsMostRecent ==
    (last.op = "resolve" /\ last.arg = HEAD /\ EngramCount(refs) > 0)
        => /\ last.out.tag = "ok"
           /\ Stored(refs, last.out.id)
           /\ \A id \in Ids :
                Stored(refs, id) =>
                    read_manifest(refs[engram_ref_name(id)]).created_at
                        <= read_manifest(refs[engram_ref_name(last.out.id)]).created_at

PointerDangling(file, r) ==
    /\ IsSome(read_head_pointer(file))
    /\ resolve_engram_ref(r, Unwrap(read_head_pointer(file))).tag /= "ok"

\* C6: a resolve("HEAD") that finds the pointer naming a missing engram
\* returns the most recent remaining engram and leaves the pointer file
\* naming it.
C6_HeadSelfHeals ==
    [][ ( /\ last'.op = "resolve" /\ last'.arg = HEAD
          /\ PointerDangling(headFile, refs)
          /\ EngramCount(refs) > 0 )
        => /\ last'.out.tag = "ok"
           /\ last'.out.id = list(refs, DefaultListOptions)[1].id
           /\ read_head_pointer(headFile') = Some(last'.out.id) ]_vars

----------------------------------------------------------------------------
(* Claims about resolve, checked under ResolveSpec                         *)

StoredIds(r) == { n[4] : n \in { m \in DOMAIN r : IsEngramRef(m) } }

Matching(r, p) == { id \in StoredIds(r) : IsPrefix(p, id) }

\* C1: resolving an argument p against the stored identifiers answers the
\* one stored identifier that starts with p when there is exactly one, fails
\* "not found" when there is none, fails "ambiguous" when there are two or
\* more, and never answers an identifier that does not start with p.
C1_PrefixResolution ==
    (last.op = "resolve" /\ last.arg /= HEAD)
        => /\ Cardinality(Matching(refs, last.arg)) = 1
                => (last.out.tag = "ok" /\ last.out.id \in Matching(refs, last.arg))
           /\ Cardinality(Matching(refs, last.arg)) = 0
                => last.out.tag = "not_found"
           /\ Cardinality(Matching(refs, last.arg)) >= 2
                => last.out.tag = "ambiguous"
           /\ last.out.tag = "ok"
                => (IsPrefix(last.arg, last.out.id) /\ last.out.id \in StoredIds(refs))

\* A strict prefix was resolved to its one match while another engram, which
\* does not match, is stored too.
C1_Witness ==
    /\ last.op = "resolve"
    /\ Len(last.arg) = 2
    /\ last.out.tag = "ok"
    /\ Cardinality(StoredIds(refs)) = 2

----------------------------------------------------------------------------
(* Claims about the round trip, checked under RoundTripSpec                *)

\* C2: a read that directly follows create(R) and names R's identifier
\* returns a record equal to R in manifest, intent, transcript, operations
\* and lineage.
C2_StoreReadRoundTrip ==
    [][ ( /\ last.op = "create" /\ last.out.tag = "ok"
          /\ last'.op = "read"
          /\ last'.arg = last.arg.manifest.id )
        => last'.out.data = Some(last.arg) ]_vars

----------------------------------------------------------------------------
(* Claims about import, checked under ImportSpec                           *)

\* C4: an import that directly follows an import of the same file stores
\* nothing: the refs are the same afterwards, and its i-th session is
\* skipped as a duplicate of the engram the first import reported for its
\* i-th session, for every i.
C4_ImportIdempotent ==
    [][ ( /\ last.op = "import" /\ last'.op = "import"
          /\ last'.arg = last.arg )
        => /\ refs' = refs
           /\ EngramCount(refs') = EngramCount(refs)
           /\ Len(last'.out.report) = Len(last.out.report)
           /\ \A i \in 1..Len(last'.out.report) :
                /\ last'.out.report[i].did = "skipped"
                /\ last'.out.report[i].id = last.out.report[i].id ]_vars

\* An Aider history of two sessions has been imported and both sessions are
\* stored, under different identifiers.
C4_Witness ==
    /\ last.op = "import"
    /\ last.arg[1] = "aider"
    /\ Len(last.out.report) = 2
    /\ last.out.report[1].did = "imported"
    /\ last.out.report[2].did = "imported"
    /\ EngramCount(refs) >= 2

----------------------------------------------------------------------------
(* Specifications of the hooks                                             *)

\* The messages a user may hand to `git commit`.
MsgTokens == { "x", "\n", "Engram-Id:" }
Messages == UNION { [ 1..n -> MsgTokens ] : n \in 0..MaxMsgLen }

\* A recording session with commits made in and around it.
HookNext ==
    \/ RecordStartOpen
    \/ RecordStartWrite
    \/ RecordEnd
    \/ WriteMsg(<< "x" >>)
    \/ PrepareCommitMsg
    \/ CommitCreate
    \/ \E h \in HookIds : PostCommitStep(h)

HookSpec == Init /\ [][HookNext]_vars

\* The hook run once or more on any message, with and without a session.
TrailerNext ==
    \/ RecordStartOpen
    \/ RecordStartWrite
    \/ RecordEnd
    \/ \E m \in Messages : WriteMsg(m)
    \/ PrepareCommitMsg

TrailerSpec == Init /\ [][TrailerNext]_vars

\* A session is being recorded: the session file exists, holding the commits
\* noted so far, and stays for as long as the wrapped command runs.
PostCommitInit ==
    /\ Init!1 /\ Init!2 /\ Init!3 /\ Init!4 /\ Init!5
    /\ \E before \in { << >>, << << "c", "0" >> >> } :
         sessionFile =
            Some(session_to_json(
                [ ActiveSession_new(<< "a", "a", "b" >>,
                                    [ name |-> << "aider" >>, model |-> None ], 1)
                  EXCEPT !.commits = before ]))
    /\ fileLock = None
    /\ msgFile = << >>
    /\ git = [ pc |-> "idle", head |-> None, log |-> << >> ]
    /\ hooks = [ h \in HookIds |-> IdleHook ]
    /\ rec = [ pc |-> "running", session_id |-> << "a", "a", "b" >>, runs |-> 1 ]
    /\ pty = IdlePty
    /\ hookFiles = NoHookFiles
    /\ ExtInit

PostCommitNext ==
    \/ WriteMsg(<< "x" >>)
    \/ PrepareCommitMsg
    \/ CommitCreate
    \/ \E h \in HookIds : PostCommitStep(h)

PostCommitSpec == PostCommitInit /\ [][PostCommitNext]_vars

----------------------------------------------------------------------------
(* Claims about the hooks                                                  *)

\* Where the line that holds position i ends.
LineEnd(msg, i) ==
    IF \E j \in i..Len(msg) : msg[j] = "\n"
    THEN CHOOSE j \in i..Len(msg) :
            msg[j] = "\n" /\ \A k \in i..(j - 1) : msg[k] /= "\n"
    ELSE Len(msg) + 1

\* The values of the "Engram-Id: <value>" lines of a message.
EngramIdTrailers(msg) ==
    { SubSeq(msg, i + 2, LineEnd(msg, i) - 1) :
        i \in { k \in 1..(Len(msg) - 1) : msg[k] = "Engram-Id:" /\ msg[k + 1] = " " } }

\* C7: when a `record` run has stored its engram, every commit it attached
\* to that engram (a commit made while the session was active) carries, as
\* its Engram-Id trailer, the identifier of the stored engram.
C7_TrailerNamesStoredEngram ==
    last.op = "record"
        => \A i \in 1..Len(git.log) :
             InSeq(git.log[i].sha, last.out.commits)
                => \A t \in EngramIdTrailers(git.log[i].message) : t = last.out.id

Count(s, x) == Cardinality({ i \in 1..Len(s) : s[i] = x })

\* C8: with a session active, a second run of prepare-commit-msg leaves the
\* message file as the first run left it; a message that already contains
\* "Engram-Id:" is never changed by the hook; and the hook never takes the
\* number of Engram-Id markers above one.
C8_TrailerFixedPoint ==
    [][ last'.op = "prepare-commit-msg"
        => /\ ( /\ last.op = "prepare-commit-msg"
                /\ IsSome(last.out.session)
                /\ IsSome(last'.out.session) )
              => msgFile' = msgFile
           /\ Contains(msgFile, << "Engram-Id:" >>) => msgFile' = msgFile
           /\ Count(msgFile', "Engram-Id:") <= 1
              \/ Count(msgFile', "Engram-Id:") = Count(msgFile, "Engram-Id:") ]_vars

\* The hook has just run on a message that holds the trailers an earlier
\* run wrote for the active session, and has left it as it was.
C8_Witness ==
    /\ last.op = "prepare-commit-msg"
    /\ IsSome(last.out.session)
    /\ last.arg = msgFile
    /\ Contains(msgFile, Trailers(Unwrap(last.out.session)))

SessionCommits ==
    IF IsSome(load(sessionFile)) THEN Unwrap(load(sessionFile)).commits ELSE << >>

Appended == { h \in HookIds : hooks[h].pc = "done" /\ hooks[h].result = "appended" }

\* C9: once every post-commit hook that was started has returned, the
\* session file still parses, holds what each hook wrote (the list each one
\* read under the lock plus its commit id) as a prefix of its commit list,
\* and so holds the ids it had before and one entry per hook.
C9_NoLostUpdate ==
    (\A h \in HookIds : hooks[h].pc \in { "idle", "done" })
        => /\ IsSome(load(sessionFile))
           /\ \A h \in Appended :
                /\ InSeq(hooks[h].sha, SessionCommits)
                /\ IsPrefix(Unwrap(hooks[h].session).commits, SessionCommits)
           /\ Len(SelectSeq(SessionCommits, LAMBDA c : c /= << "c", "0" >>))
                = Cardinality(Appended)

\* Two hooks ran at once and both have appended: the hook of the first
\* commit wrote after the hook of the second, on top of the earlier ids.
C9_Witness ==
    /\ \A h \in HookIds : hooks[h].pc = "done" /\ hooks[h].result = "appended"
    /\ Len(Unwrap(hooks[1].session).commits) > Len(Unwrap(hooks[2].session).commits)
    /\ SessionCommits[1] = << "c", "0" >>

----------------------------------------------------------------------------
(* PtySession::run (engram-capture pty/wrapper.rs): the main thread, the   *)
(* output pump (reader thread), the input pump (writer thread), the child  *)
(* and the user at the terminal.  Output and input are counted in chunks.  *)

PtyStep(p) ==
    /\ pty' = p
    /\ UNCHANGED << storeVars, hookVars, last, extVars >>

\* run, lines 59-143: open the PTY, spawn the child and the two threads.
PtyRun ==
    /\ pty.main = "idle"
    /\ PtyStep([ pty EXCEPT !.main = "wait_child", !.child = "running",
                            !.reader = "read", !.writer = "check" ])

\* The child prints a chunk.
ChildWrite ==
    /\ pty.child = "running"
    /\ pty.produced < MaxOutput
    /\ PtyStep([ pty EXCEPT !.produced = @ + 1, !.out = @ + 1 ])

\* The child exits; the slave side of the PTY closes.
ChildExit ==
    /\ pty.child = "running"
    /\ PtyStep([ pty EXCEPT !.child = "exited" ])

\* The user types a chunk.
UserType ==
    /\ pty.main /= "idle"
    /\ pty.stdin_open
    /\ pty.typed < MaxInput
    /\ PtyStep([ pty EXCEPT !.typed = @ + 1, !.stdin = @ + 1 ])

\* The user ends standard input.
UserClose ==
    /\ pty.main /= "idle"
    /\ pty.stdin_open
    /\ PtyStep([ pty EXCEPT !.stdin_open = FALSE ])

\* Reader thread: reader.read blocks until there is output or the PTY is
\* closed; Ok(n) is captured, Ok(0) or Err ends the loop.
ReaderRead ==
    /\ pty.reader = "read"
    /\ \/ /\ pty.out > 0
          /\ PtyStep([ pty EXCEPT !.out = @ - 1, !.capture = @ + 1 ])
       \/ /\ pty.out = 0
          /\ pty.child = "exited"
          /\ PtyStep([ pty EXCEPT !.reader = "done" ])

\* Writer thread, top of the loop: the shutdown flag is looked at only here.
WriterCheck ==
    /\ pty.writer = "check"
    /\ PtyStep([ pty EXCEPT !.writer = IF pty.shutdown THEN "done" ELSE "read_stdin" ])

\* Writer thread: stdin().read blocks until the user types or ends the
\* input; a chunk goes to the PTY, where the write can fail once the child
\* is gone.
WriterRead ==
    /\ pty.writer = "read_stdin"
    /\ \/ /\ pty.stdin > 0
          /\ PtyStep([ pty EXCEPT !.stdin = @ - 1, !.sent = @ + 1, !.writer = "check" ])
       \/ /\ pty.stdin > 0
          /\ pty.child = "exited"
          /\ PtyStep([ pty EXCEPT !.stdin = @ - 1, !.writer = "done" ])
       \/ /\ pty.stdin = 0
          /\ ~pty.stdin_open
          /\ PtyStep([ pty EXCEPT !.writer = "done" ])

\* run, lines 146-148: child.wait().
MainWaitChild ==
    /\ pty.main = "wait_child"
    /\ pty.child = "exited"
    /\ PtyStep([ pty EXCEPT !.main = "join_reader" ])

\* run, line 151: reader_handle.join().
MainJoinReader ==
    /\ pty.main = "join_reader"
    /\ pty.reader = "done"
    /\ PtyStep([ pty EXCEPT !.main = "signal" ])

\* run, line 156: shutdown.store(true).
MainSignal ==
    /\ pty.main = "signal"
    /\ PtyStep([ pty EXCEPT !.shutdown = TRUE, !.main = "join_writer" ])

\* run, lines 157-181: writer_handle.join(), then the CapturedSession.
MainJoinWriter ==
    /\ pty.main = "join_writer"
    /\ pty.writer = "done"
    /\ pty' = [ pty EXCEPT !.main = "returned" ]
    /\ last' = [ op |-> "capture", arg |-> << >>,
                 out |-> [ tag |-> "ok", raw_output |-> pty.capture ] ]
    /\ UNCHANGED << storeVars, hookVars, extVars >>

CaptureNext ==
    \/ PtyRun
    \/ ChildWrite
    \/ ChildExit
    \/ UserType
    \/ UserClose
    \/ ReaderRead
    \/ WriterCheck
    \/ WriterRead
    \/ MainWaitChild
    \/ MainJoinReader
    \/ MainSignal
    \/ MainJoinWriter

CaptureSpec == Init /\ [][CaptureNext]_vars

\* C10: once the child has exited and the output pump has been joined, run
\* does not wait for the input pump: the main thread is never held in the
\* join of an input pump that is blocked reading a standard input with
\* nothing to deliver.
C10_ReturnsWithoutInputPump ==
    ~( /\ pty.child = "exited"
       /\ pty.reader = "done"
       /\ pty.main = "join_writer"
       /\ pty.writer = "read_stdin"
       /\ pty.stdin = 0
       /\ pty.stdin_open )

----------------------------------------------------------------------------
(* The ref namespace: a repository that also has a branch, and engrams     *)
(* whose identifiers have one, two and three characters                    *)

BranchRef == << "refs", "heads", "main" >>

NamespaceIds == { << "a" >>, << "a", "b" >>, << "a", "a", "b" >> }

NamespaceInputs ==
    { MakeData(id, 1, << "aider" >>, PlainIntent) : id \in NamespaceIds }

\* What another clone has pushed: an engram with a short identifier too.
NamespaceRemoteData == MakeData(<< "b" >>, 1, << "claude", "-code" >>, PlainIntent)

\* The host repository and the remote each have a branch of their own, and
\* another clone has pushed one engram to the remote.
NamespaceInit ==
    /\ refs = (BranchRef :> << "branch-commit" >>)
    /\ headFile = None
    /\ remote = create_engram_ref((BranchRef :> << "remote-branch-commit" >>),
                                  NamespaceRemoteData.manifest.id,
                                  create_engram_objects(NamespaceRemoteData))
    /\ config = DefaultConfig
    /\ last = NoOp
    /\ sessionFile = None
    /\ fileLock = None
    /\ msgFile = << >>
    /\ git = [ pc |-> "idle", head |-> None, log |-> << >> ]
    /\ hooks = [ h \in HookIds |-> IdleHook ]
    /\ rec = IdleRec
    /\ pty = IdlePty
    /\ hookFiles = NoHookFiles
    /\ ExtInit

NamespaceNext ==
    \/ \E data \in NamespaceInputs : Create(data)
    \/ \E id \in NamespaceIds : Delete(id)
    \/ \E f \in ClaudeFiles : ImportClaude(f)
    \/ RecordStartOpen
    \/ RecordStartWrite
    \/ RecordEnd
    \/ Fetch

NamespaceSpec == NamespaceInit /\ [][NamespaceNext]_vars

\* The refs a step created, updated or deleted.
ChangedRefs ==
    { n \in DOMAIN refs \cup DOMAIN refs' :
        \/ n \notin DOMAIN refs
        \/ n \notin DOMAIN refs'
        \/ refs[n] # refs'[n] }

\* "refs/engrams/" + fanout + "/" + id, written out from the identifier.
NamedFor(I) ==
    << "refs", "engrams",
       IF Len(I) >= 2 THEN << I[1], I[2] >> ELSE << "0", "0" >>,
       I >>

\* The identifiers a successful create, import or record stored.
WrittenIds ==
    IF last'.out.tag # "ok" THEN {}
    ELSE IF last'.op \in { "create", "record" } THEN { last'.out.id }
    ELSE IF last'.op = "import"
         THEN { last'.out.report[i].id :
                  i \in { j \in DOMAIN last'.out.report : last'.out.report[j].did = "imported" } }
    ELSE {}

----------------------------------------------------------------------------
(* GitStorage::create step by step, with a failure at any one step         *)

\* A create that writes the ref before the objects it points to.
create_steps_ref_first ==
    << "ref", "serialize",
       "blob_manifest", "blob_intent", "blob_transcript", "blob_operations",
       "blob_lineage", "tree", "commit", "head" >>

\* The statements of create_engram_objects and GitStorage::create in order:
\* the five documents are serialised, the five blobs, the tree and the
\* commit are written, then the ref, then the pointer file.
create_steps ==
    << "serialize",
       "blob_manifest", "blob_intent", "blob_transcript", "blob_operations",
       "blob_lineage", "tree", "commit", "ref", "head" >>

NoFailure == "none"

FailurePoints == { create_steps[i] : i \in DOMAIN create_steps } \cup { NoFailure }

\* The steps that ran before the failing one (all of them without a failure).
StepsDone(fail_at) ==
    IF fail_at = NoFailure THEN create_steps
    ELSE LET k == CHOOSE i \in DOMAIN create_steps : create_steps[i] = fail_at
         IN  SubSeq(create_steps, 1, k - 1)

\* Every step but the pointer write is followed by `?`; the result of
\* update_head_pointer is discarded.
try_create(r, file, data, fail_at) ==
    LET done == StepsDone(fail_at)
        id == data.manifest.id
    IN  [ refs |-> IF InSeq("ref", done)
                   THEN create_engram_ref(r, id, create_engram_objects(data))
                   ELSE r,
          head |-> IF InSeq("head", done)
                   THEN update_head_pointer(file, id, data.manifest.created_at)
                   ELSE file,
          done |-> done,
          out  |-> IF fail_at \in { NoFailure, "head" }
                   THEN [ tag |-> "ok", id |-> id ]
                   ELSE [ tag |-> "err", error |-> fail_at ] ]

CreateWithFailure(data, fail_at) ==
    LET res == try_create(refs, headFile, data, fail_at)
    IN  /\ \/ EngramCount(refs) < MaxEngrams
           \/ engram_ref_name(data.manifest.id) \in DOMAIN refs
        /\ refs' = res.refs
        /\ headFile' = res.head
        /\ last' = [ op |-> "create", arg |-> data, done |-> res.done, out |-> res.out ]
        /\ UNCHANGED << remote, config >>
        /\ UNCHANGED << hookVars, pty, extVars >>

CreateIds == { << "a", "a", "b" >>, << "a", "b", "a" >> }

CreateInputs ==
    { MakeData(id, t, << "aider" >>, PlainIntent) : id \in CreateIds, t \in Times }

CreateNext ==
    \/ \E data \in CreateInputs, fail_at \in FailurePoints : CreateWithFailure(data, fail_at)
    \/ \E id \in CreateIds : Delete(id)

CreateSpec == Init /\ [][CreateNext]_vars

ObjectSteps ==
    { "blob_manifest", "blob_intent", "blob_transcript", "blob_operations",
      "blob_lineage", "tree", "commit" }

\* What list and resolve answer in a store.
Answers(r) ==
    [ listed   |-> list(r, DefaultListOptions),
      resolved |-> [ a \in { SubSeq(i, 1, n) : i \in CreateIds, n \in 0..3 } |->
                       resolve_engram_ref(r, a) ] ]

\* C12: a create that fails before the ref is written returns an error and
\* leaves the engram refs, the answers of list and resolve and the pointer
\* file as they were; the ref is written only after the five blobs, the tree
\* and the commit exist, and the pointer file only after the ref exists.
C12_CreateAtomic ==
    [][ last'.op = "create" =>
          /\ ~InSeq("ref", last'.done) =>
                /\ last'.out.tag = "err"
                /\ refs' = refs
                /\ Answers(refs') = Answers(refs)
                /\ headFile' = headFile
          /\ last'.out.tag = "err" => refs' = refs /\ headFile' = headFile
          /\ refs' # refs =>
                \A st \in ObjectSteps : InSeq(st, last'.done)
          /\ headFile' # headFile =>
                /\ InSeq("ref", last'.done)
                /\ engram_ref_name(last'.arg.manifest.id) \in DOMAIN refs' ]_vars

\* A create failed while writing the commit, in a store that already held an
\* engram and a pointer file.
C12_Witness ==
    /\ last.op = "create"
    /\ last.out.tag = "err"
    /\ last.out.error = "commit"
    /\ EngramCount(refs) >= 1
    /\ IsSome(headFile)
    /\ engram_ref_name(last.arg.manifest.id) \notin DOMAIN refs

----------------------------------------------------------------------------
(* Working-tree snapshots and their diff (engram-capture pty/detector.rs)  *)

\* A snapshot holds at most this many files.
MaxFiles == 2

\* A PathBuf is a sequence of bytes; on Unix a file name need not be valid
\* UTF-8.  "xFE" and "xFF" are bytes that never occur in UTF-8.
InvalidBytes == { "xFE", "xFF" }

SamplePaths == { << "a" >>, << "b" >>, << "xFE" >>, << "xFF" >> }

Hashes == { "h1", "h2" }

\* Path::to_string_lossy: every invalid byte becomes U+FFFD.
to_string_lossy(path) ==
    [ i \in 1..Len(path) |-> IF path[i] \in InvalidBytes THEN "uFFFD" ELSE path[i] ]

\* String ordering is the ordering of the UTF-8 bytes: U+FFFD is EF BF BD.
ByteRank(c) == CASE c = "a" -> 1 [] c = "b" -> 2 [] c = "uFFFD" -> 3

RECURSIVE path_cmp_less(_, _)
path_cmp_less(x, y) ==
    IF y = << >> THEN FALSE
    ELSE IF x = << >> THEN TRUE
    ELSE IF ByteRank(Head(x)) # ByteRank(Head(y))
         THEN ByteRank(Head(x)) < ByteRank(Head(y))
         ELSE path_cmp_less(Tail(x), Tail(y))

\* changes.sort_by(|a, b| a.path.cmp(&b.path)): a stable sort.
RECURSIVE InsertByPath(_, _)
InsertByPath(sorted, c) ==
    IF sorted = << >> THEN << c >>
    ELSE IF path_cmp_less(c.path, Head(sorted).path)
         THEN << c >> \o sorted
         ELSE << Head(sorted) >> \o InsertByPath(Tail(sorted), c)

RECURSIVE SortByPath(_)
SortByPath(changes) ==
    IF changes = << >> THEN << >>
    ELSE InsertByPath(SortByPath(SubSeq(changes, 1, Len(changes) - 1)),
                      changes[Len(changes)])

\* The orders in which a HashMap may hand out its keys.
IterationOrders(map) ==
    { o \in [ 1..Cardinality(DOMAIN map) -> DOMAIN map ] :
        \A i, j \in DOMAIN o : i # j => o[i] # o[j] }

FileChange(path, change_type) ==
    [ path |-> to_string_lossy(path), change_type |-> change_type ]

RECURSIVE CreatedAndModified(_, _, _)
CreatedAndModified(before, after, order) ==
    IF order = << >> THEN << >>
    ELSE LET path == Head(order)
             rest == CreatedAndModified(before, after, Tail(order))
         IN  IF path \notin DOMAIN before
             THEN << FileChange(path, "Created") >> \o rest
             ELSE IF before[path] # after[path]
                  THEN << FileChange(path, "Modified") >> \o rest
                  ELSE rest

RECURSIVE DeletedFiles(_, _)
DeletedFiles(after, order) ==
    IF order = << >> THEN << >>
    ELSE LET path == Head(order)
             rest == DeletedFiles(after, Tail(order))
         IN  IF path \notin DOMAIN after
             THEN << FileChange(path, "Deleted") >> \o rest
             ELSE rest

\* detect_changes, for one iteration order of each of the two maps.
detect_changes(before, after, after_order, before_order) ==
    SortByPath(CreatedAndModified(before, after, after_order)
                   \o DeletedFiles(after, before_order))

Snapshots ==
    UNION { [ files -> Hashes ] :
              files \in { f \in SUBSET SamplePaths : Cardinality(f) <= MaxFiles } }

DetectChanges(before, after) ==
    \E after_order \in IterationOrders(after), before_order \in IterationOrders(before) :
        /\ last' = [ op |-> "detect_changes",
                     arg |-> [ before |-> before, after |-> after ],
                     out |-> detect_changes(before, after, after_order, before_order) ]
        /\ UNCHANGED << storeVars, hookVars, pty, extVars >>

DiffNext == \E before, after \in Snapshots : DetectChanges(before, after)

DiffSpec == Init /\ [][DiffNext]_vars

\* How many entries of a diff carry this path and this change type.
Entries(out, path, change_type) ==
    Cardinality({ i \in DOMAIN out :
                    out[i].path = path /\ out[i].change_type = change_type })

\* C13: detect_changes(before, after) holds exactly one Created entry for each
\* path only in after, one Modified entry for each path in both with
\* different hashes, one Deleted entry for each path only in before and
\* nothing else; no path appears twice and the entries ascend by path.
C13_DiffIsNetChange ==
    last.op = "detect_changes" =>
        LET before == last.arg.before
            after == last.arg.after
            out == last.out
            expected ==
                { << to_string_lossy(p), "Created" >> : p \in DOMAIN after \ DOMAIN before }
                \cup { << to_string_lossy(p), "Modified" >> :
                         p \in { q \in DOMAIN after \cap DOMAIN before : before[q] # after[q] } }
                \cup { << to_string_lossy(p), "Deleted" >> : p \in DOMAIN before \ DOMAIN after }
        IN  /\ \A e \in expected : Entries(out, e[1], e[2]) = 1
            /\ \A i \in DOMAIN out : << out[i].path, out[i].change_type >> \in expected
            /\ \A i, j \in DOMAIN out : i # j => out[i].path # out[j].path
            /\ \A i, j \in DOMAIN out : i < j => ~path_cmp_less(out[j].path, out[i].path)

----------------------------------------------------------------------------
(* Listing a store that also holds a ref whose commit has no manifest      *)

\* A commit under refs/engrams/ that no create made: its tree holds no
\* manifest.json.
ForeignCommit == [ message |-> << "not an engram" >>, tree |-> [ readme |-> << "text" >> ] ]

ForeignId == << "a", "b", "c" >>

ListIds == { << "a", "a", "b" >>, << "a", "b", "a" >> }

ListInputs ==
    { MakeData(id, t, agent, PlainIntent) : id \in ListIds, t \in Times, agent \in Agents }

\* ListOptions: no limit or a limit up to one past the store's capacity, and
\* no filter, the empty filter, or a piece of an agent name.
ListOptionSets ==
    [ limit : { None } \cup { Some(n) : n \in 0..(MaxEngrams + 1) },
      agent_filter : { None, Some(<< >>), Some(<< "aider" >>), Some(<< "-code" >>),
                       Some(<< "codex" >>) } ]

\* The remote carries the foreign ref; a fetch brings it into the store.
ListInit ==
    /\ refs = << >>
    /\ headFile = None
    /\ remote = create_engram_ref(<< >>, ForeignId, ForeignCommit)
    /\ config = DefaultConfig
    /\ last = NoOp
    /\ sessionFile = None
    /\ fileLock = None
    /\ msgFile = << >>
    /\ git = [ pc |-> "idle", head |-> None, log |-> << >> ]
    /\ hooks = [ h \in HookIds |-> IdleHook ]
    /\ rec = IdleRec
    /\ pty = IdlePty
    /\ hookFiles = NoHookFiles
    /\ ExtInit

\* GitStorage::list
List(opts) ==
    /\ last' = [ op |-> "list", arg |-> opts,
                 out |-> [ tag |-> "ok", manifests |-> list(refs, opts) ] ]
    /\ UNCHANGED << storeVars, hookVars, pty, extVars >>

ListNext ==
    \/ \E data \in ListInputs : Create(data)
    \/ \E id \in ListIds \cup { ForeignId } : Delete(id)
    \/ Fetch
    \/ \E opts \in ListOptionSets : List(opts)

ListSpec == ListInit /\ [][ListNext]_vars

\* The stored engrams whose manifest can be read and passes the filter.
MatchingManifests(opts) ==
    { read_manifest(refs[n]) :
        n \in { k \in DOMAIN refs :
                  /\ IsEngramRef(k)
                  /\ "manifest_json" \in DOMAIN refs[k].tree
                  /\ \/ opts.agent_filter = None
                     \/ Contains(read_manifest(refs[k]).agent.name,
                                 Unwrap(opts.agent_filter)) } }

\* C14: list(opts) succeeds and returns stored engrams with a readable
\* manifest whose agent name contains the filter, each once, newest first,
\* all of them without a limit and otherwise the limit-many most recent ones;
\* an engram whose manifest cannot be read is left out.
C14_ListSemantics ==
    last.op = "list" =>
        LET out == last.out.manifests
            matching == MatchingManifests(last.arg)
            returned == { out[i] : i \in DOMAIN out }
            n == IF last.arg.limit = None \/ Unwrap(last.arg.limit) > Cardinality(matching)
                 THEN Cardinality(matching) ELSE Unwrap(last.arg.limit)
        IN  /\ last.out.tag = "ok"
            /\ returned \subseteq matching
            /\ Len(out) = n
            /\ Cardinality(returned) = n
            /\ \A i, j \in DOMAIN out : i < j => out[i].created_at >= out[j].created_at
            /\ \A m \in matching \ returned, i \in DOMAIN out :
                   m.created_at <= out[i].created_at

\* A list with limit 1 in a store that holds two matching engrams of
\* different age and the ref without a manifest.
C14_Witness ==
    /\ last.op = "list"
    /\ last.arg.limit = Some(1)
    /\ IsSome(last.arg.agent_filter)
    /\ Cardinality(MatchingManifests(last.arg)) = 2
    /\ \E m1, m2 \in MatchingManifests(last.arg) : m1.created_at < m2.created_at
    /\ engram_ref_name(ForeignId) \in DOMAIN refs
    /\ Len(last.out.manifests) = 1

----------------------------------------------------------------------------
\* C15: resolve, read and delete reject an argument of fewer than two
\* characters (the empty string included) with an error; such an argument is
\* never resolved to a stored engram by prefix match.
C15_ShortPrefixRejected ==
    /\ last.op \in { "resolve", "read", "delete" }
    /\ last.arg # HEAD
    /\ Len(last.arg) < 2
    => last.out.tag # "ok"

----------------------------------------------------------------------------
(* Intent::to_markdown followed by Intent::from_markdown                   *)

IntentRoundTrip(intent) ==
    /\ last' = [ op |-> "intent_round_trip", arg |-> intent,
                 out |-> from_markdown(to_markdown(intent)) ]
    /\ UNCHANGED << storeVars, hookVars, pty, extVars >>

IntentNext == \E intent \in RoundTripIntents : IntentRoundTrip(intent)

IntentSpec == Init /\ [][IntentNext]_vars

SectionHeaders == { HdrIntent, HdrOriginal, HdrGoal, HdrSummary, HdrDeadEnds, HdrDecisions }

\* No line of the text begins with a section header.
HeaderSafe(text) ==
    \A i \in DOMAIN text :
        text[i] \in SectionHeaders => ~(i = 1 \/ text[i - 1] = "\n")

HeaderSafeIntent(intent) ==
    /\ HeaderSafe(intent.original_request)
    /\ IsSome(intent.interpreted_goal) => HeaderSafe(Unwrap(intent.interpreted_goal))
    /\ IsSome(intent.summary) => HeaderSafe(Unwrap(intent.summary))
    /\ \A i \in DOMAIN intent.dead_ends :
           HeaderSafe(intent.dead_ends[i].approach) /\ HeaderSafe(intent.dead_ends[i].reason)
    /\ \A i \in DOMAIN intent.decisions :
           HeaderSafe(intent.decisions[i].description)
               /\ HeaderSafe(intent.decisions[i].rationale)

\* C16: for every Intent none of whose text fields has a line beginning with
\* a section header, from_markdown(to_markdown(intent)) equals the intent in
\* all five fields.
C16_IntentRoundTrip ==
    last.op = "intent_round_trip" /\ HeaderSafeIntent(last.arg)
        => last.out = last.arg

----------------------------------------------------------------------------
(* Token accounting: the SDK session, the importers and record             *)

\* add_tokens is called at most this many times on one session, and a vendor
\* file holds at most this many usage records.
MaxCalls == 2

\* EngramSession::add_tokens on the session's TokenUsage.
add_tokens(st, input_tokens, output_tokens) ==
    LET i == U64Add(st.usage.input_tokens, input_tokens)
        o == U64Add(st.usage.output_tokens, output_tokens)
        sum == U64Add(input_tokens, output_tokens)
        t == U64Add(st.usage.total_tokens, sum.value)
    IN  [ usage |-> [ st.usage EXCEPT !.input_tokens = i.value,
                                      !.output_tokens = o.value,
                                      !.total_tokens = t.value ],
          overflowed |-> st.overflowed \/ i.overflow \/ o.overflow
                             \/ sum.overflow \/ t.overflow ]

RECURSIVE add_tokens_calls(_, _)
add_tokens_calls(st, calls) ==
    IF calls = << >> THEN st
    ELSE add_tokens_calls(add_tokens(st, Head(calls)[1], Head(calls)[2]), Tail(calls))

\* The manifest as create writes it and a later read parses it.
WrittenManifest(data) == read_manifest(create_engram_objects(data))

\* What a builder hands to create: the manifest it wrote, or a panic of a
\* build with overflow checks.
Built(op, arg, tok, data) ==
    \E overflow_checks \in BOOLEAN :
        /\ last' = [ op |-> op, arg |-> arg,
                     out |-> IF overflow_checks /\ tok.overflowed
                             THEN [ tag |-> "panic" ]
                             ELSE [ tag |-> "ok",
                                    manifest |-> WrittenManifest(
                                        [ data EXCEPT !.manifest.token_usage = tok.usage ]) ] ]
        /\ UNCHANGED << storeVars, hookVars, pty, extVars >>

\* EngramSession::build after a sequence of add_tokens calls.
SessionBuild(calls) ==
    Built("sdk", calls,
          add_tokens_calls([ usage |-> DefaultUsage, overflowed |-> FALSE ], calls),
          MakeData(<< "a", "a", "b" >>, 1, << "aider" >>, PlainIntent))

\* ClaudeCodeImporter::import_session
ImportSession(file) ==
    Built("claude-code", file.usages, claude_token_usage(file.usages),
          ImportedData(<< "a", "a", "b" >>, file.first_timestamp, << "claude", "-code" >>,
                       claude_session_hash(file.content), DefaultUsage))

\* parse_aider_session on the first session of a history
ParseAiderSession(file) ==
    Built("aider", file.token_lines[1], aider_token_usage(file.token_lines[1]),
          ImportedData(<< "a", "a", "b" >>, 1, << "aider" >>,
                       aider_session_hash(file.content, 0), DefaultUsage))

\* SessionBuilder::build of `engram record`: the PTY capture knows no tokens.
CaptureBuild ==
    LET data == SessionBuilder_build(<< "a", "a", "b" >>,
                                     [ name |-> << "aider" >>, model |-> None ],
                                     Captured(1), << >>)
    IN  Built("record", << >>,
              [ usage |-> data.manifest.token_usage, overflowed |-> FALSE ], data)

SdkCalls ==
    UNION { [ 1..n -> { << 1, 1 >>, << 0, 1 >>, << 2, 0 >>, << U64Max, 0 >>,
                        << U64Max, U64Max >> } ] :
              n \in 0..MaxCalls }

\* The usage record of one assistant message of a Claude Code session file.
UsageRecords ==
    { [ input_tokens |-> Some(1), output_tokens |-> Some(1),
        cache_read_input_tokens |-> None, cache_creation_input_tokens |-> None ],
      [ input_tokens |-> None, output_tokens |-> Some(1),
        cache_read_input_tokens |-> Some(1), cache_creation_input_tokens |-> Some(1) ],
      [ input_tokens |-> Some(1), output_tokens |-> None,
        cache_read_input_tokens |-> Some(U64Max), cache_creation_input_tokens |-> None ],
      [ input_tokens |-> Some(U64Max), output_tokens |-> Some(U64Max),
        cache_read_input_tokens |-> Some(U64Max),
        cache_creation_input_tokens |-> Some(U64Max) ] }

TokenClaudeFiles ==
    { [ content |-> << "claude-session", u >>, first_timestamp |-> 1, usages |-> u ] :
        u \in UNION { [ 1..n -> UsageRecords ] : n \in 0..MaxCalls } }

\* The counts on one "Tokens:" line of an Aider history.
TokenLines ==
    { [ sent |-> Some(1), received |-> Some(1) ],
      [ sent |-> None, received |-> Some(1) ],
      [ sent |-> Some(U64Max), received |-> None ],
      [ sent |-> Some(U64Max), received |-> Some(U64Max) ] }

TokenAiderFiles ==
    { [ content |-> << "aider-history", l >>, sessions |-> 1,
        token_lines |-> << l >> ] :
        l \in UNION { [ 1..n -> TokenLines ] : n \in 0..MaxCalls } }

TokenNext ==
    \/ \E calls \in SdkCalls : SessionBuild(calls)
    \/ \E f \in TokenClaudeFiles : ImportSession(f)
    \/ \E f \in TokenAiderFiles : ParseAiderSession(f)
    \/ CaptureBuild

TokenSpec == Init /\ [][TokenNext]_vars

\* The token usage of the manifest a builder wrote.
WroteUsage == last.op \in { "sdk", "claude-code", "aider", "record" } /\ last.out.tag = "ok"

----------------------------------------------------------------------------
(* Installing and uninstalling the hooks                                   *)

\* Hooks a user may have written: one that knows nothing of engram, and one
\* that calls the hook handler itself.
UserHooks ==
    { << "#!/bin/sh", "echo original" >>,
      << "#!/bin/sh", "run-lint", HandlerCall >> }

\* The user writes or removes a hook script while engram's hooks are not
\* installed.
UserWriteHook(hook_name, file) ==
    /\ hookFiles.round # "installed"
    /\ hookFiles' = [ hookFiles EXCEPT !.dir[hook_name].hook = file ]
    /\ last' = [ op |-> "user-hook", arg |-> hook_name, out |-> [ tag |-> "ok" ] ]
    /\ UNCHANGED << storeVars, sessionFile, fileLock, msgFile, git, hooks, rec, pty, extVars >>

\* install_hooks
InstallHooks ==
    /\ hookFiles' =
          [ dir    |-> [ h \in HookNames |-> install_hook(hookFiles.dir[h], h) ],
            before |-> IF hookFiles.round = "installed"
                       THEN hookFiles.before ELSE hookFiles.dir,
            round  |-> "installed" ]
    /\ last' = [ op |-> "install_hooks", arg |-> << >>, out |-> [ tag |-> "ok" ] ]
    /\ UNCHANGED << storeVars, sessionFile, fileLock, msgFile, git, hooks, rec, pty, extVars >>

\* uninstall_hooks
UninstallHooks ==
    /\ hookFiles' =
          [ hookFiles EXCEPT !.dir = [ h \in HookNames |-> uninstall_hook(hookFiles.dir[h]) ],
                             !.round = "uninstalled" ]
    /\ last' = [ op |-> "uninstall_hooks", arg |-> hookFiles.round,
                 out |-> [ tag |-> "ok" ] ]
    /\ UNCHANGED << storeVars, sessionFile, fileLock, msgFile, git, hooks, rec, pty, extVars >>

InstallerNext ==
    \/ \E h \in HookNames, file \in { None } \cup { Some(c) : c \in UserHooks } :
           UserWriteHook(h, file)
    \/ InstallHooks
    \/ UninstallHooks

InstallerSpec == Init /\ [][InstallerNext]_vars

GeneratedScripts == { generate_hook_script(h, b) : h \in HookNames, b \in BOOLEAN }

\* C18: after install_hooks, run one or more times, and then uninstall_hooks,
\* every hook that existed before the first install is there under its name
\* with its content, there is no <hook>.pre-engram backup and no generated
\* hook, and a hook that did not exist before does not exist.
C18_InstallUninstallRoundTrip ==
    last.op = "uninstall_hooks" /\ last.arg = "installed" =>
        \A h \in HookNames :
            /\ hookFiles.dir[h].hook = hookFiles.before[h].hook
            /\ hookFiles.dir[h].backup = None
            /\ IsSome(hookFiles.dir[h].hook) =>
                   Unwrap(hookFiles.dir[h].hook) \notin GeneratedScripts

----------------------------------------------------------------------------
(* init, ensure_refspecs, push and fetch on the configuration of a remote  *)

\* What `git remote add` leaves for a remote, and what a user may add to it.
Cloned == [ fetch |-> << "+refs/heads/*:refs/remotes/r/*" >>, push |-> << >> ]

Customised ==
    [ fetch |-> << "+refs/heads/*:refs/remotes/r/*", "+refs/notes/*:refs/notes/*" >>,
      push |-> << "refs/heads/main:refs/heads/main" >> ]

\* Repositories with one remote or two; the names are valid remote names.
InitialConfigs ==
    { Origin :> Cloned,
      Origin :> Customised,
      << "m", "+", "f" >> :> Cloned,
      << "a", ".", "b" >> :> Cloned @@ << "a", "-", "b" >> :> Customised }

\* The names the calls are made with; "upstream" is never configured.
RemoteNames ==
    { Origin, << "upstream" >>, << "m", "+", "f" >>, << "a", ".", "b" >>,
      << "a", "-", "b" >> }

SyncInputs == { MakeData(<< "a", "a", "b" >>, 1, << "aider" >>, PlainIntent) }

SyncRemoteInputs ==
    { MakeData(<< "a", "a", "b" >>, 2, << "claude", "-code" >>, PlainIntent) }

SyncInit ==
    /\ refs = << >>
    /\ headFile = None
    /\ remote = << >>
    /\ config \in InitialConfigs
    /\ last = NoOp
    /\ sessionFile = None
    /\ fileLock = None
    /\ msgFile = << >>
    /\ git = [ pc |-> "idle", head |-> None, log |-> << >> ]
    /\ hooks = [ h \in HookIds |-> IdleHook ]
    /\ rec = IdleRec
    /\ pty = IdlePty
    /\ hookFiles = NoHookFiles
    /\ ExtInit

SyncNext ==
    \/ \E filter \in { None } \cup { Some(r) : r \in RemoteNames } : InitRepo(filter)
    \/ \E r \in RemoteNames : EnsureRefspecs(r)
    \/ \E r \in RemoteNames, dry_run \in BOOLEAN : PushEngrams(r, dry_run)
    \/ \E r \in RemoteNames, dry_run \in BOOLEAN : FetchEngrams(r, dry_run)
    \/ \E data \in SyncInputs : Create(data)
    \/ \E data \in SyncRemoteInputs : OtherClonePush(data)

SyncSpec == SyncInit /\ [][SyncNext]_vars

\* The remotes the step's init, ensure_refspecs, push or fetch was for.
ConfiguredBy(op) ==
    IF op.op = "init_with_remote"
    THEN IF IsSome(op.arg) THEN { Unwrap(op.arg) } \cap DOMAIN config ELSE DOMAIN config
    ELSE IF op.op \in { "ensure_refspecs", "push", "fetch" }
    THEN { op.arg.remote } \cap DOMAIN config
    ELSE { }

\* No step removes a refspec that was configured before.
RefspecsKept ==
    [][ \A r \in DOMAIN config :
          /\ \A i \in DOMAIN config[r].fetch : InSeq(config[r].fetch[i], config'[r].fetch)
          /\ \A i \in DOMAIN config[r].push : InSeq(config[r].push[i], config'[r].push) ]_vars

\* C19: after an init, ensure_refspecs, push or fetch for a remote, that
\* remote's configuration holds the engram fetch refspec exactly once and the
\* engram push refspec exactly once.
C19_RefspecsOnce ==
    \A r \in ConfiguredBy(last) :
        /\ Count(config[r].fetch, ENGRAM_FETCH_REFSPEC) = 1
        /\ Count(config[r].push, ENGRAM_PUSH_REFSPEC) = 1

\* C20: push_engrams and fetch_engrams with dry_run = true return Ok for
\* every remote name, a name that is not configured included.
C20_DryRunSucceeds ==
    last.op \in { "push", "fetch" } /\ last.arg.dry_run => last.out.tag = "ok"

----------------------------------------------------------------------------
(* Two clones and the shared remote (sync.rs)                              *)

\* A fetch that mirrors the remote: what the remote lacks is pruned.
fetched_pruning(local, theirs) ==
    [ n \in { m \in DOMAIN theirs : IsEngramRef(m) } \cup
            { m \in DOMAIN local : ~IsEngramRef(m) } |->
        IF IsEngramRef(n) THEN theirs[n] ELSE local[n] ]

\* remote.fetch(["+refs/engrams/*:refs/engrams/*"]): every engram ref of the
\* remote is written over the local ref of that name; no local ref goes.
fetched(local, theirs) ==
    [ n \in DOMAIN local \cup { m \in DOMAIN theirs : IsEngramRef(m) } |->
        IF n \in DOMAIN theirs /\ IsEngramRef(n) THEN theirs[n] ELSE local[n] ]

\* GitStorage::create in the second clone.
PeerCreate(data) ==
    /\ \/ EngramCount(peer) < MaxEngrams
       \/ engram_ref_name(data.manifest.id) \in DOMAIN peer
    /\ peer' = create_engram_ref(peer, data.manifest.id, create_engram_objects(data))
    /\ last' = [ op |-> "peer_create", arg |-> data,
                 out |-> [ tag |-> "ok", id |-> data.manifest.id ] ]
    /\ UNCHANGED << storeVars, hookVars, pty, index, creators >>

\* fetch_engrams in the second clone, whose origin is the shared remote.
PeerFetch ==
    /\ peer' = fetched(peer, remote)
    /\ last' = [ op |-> "peer_fetch", arg |-> [ remote |-> Origin, dry_run |-> FALSE ],
                 out |-> [ tag |-> "ok",
                           refs_fetched |->
                               IF EngramCount(fetched(peer, remote)) >= EngramCount(peer)
                               THEN EngramCount(fetched(peer, remote)) - EngramCount(peer)
                               ELSE 0 ] ]
    /\ UNCHANGED << storeVars, hookVars, pty, index, creators >>

\* GitStorage::list and GitStorage::read in the second clone.
PeerList ==
    /\ last' = [ op |-> "peer_list", arg |-> DefaultListOptions,
                 out |-> [ tag |-> "ok", manifests |-> list(peer, DefaultListOptions) ] ]
    /\ UNCHANGED << storeVars, hookVars, pty, extVars >>

PeerRead(arg) ==
    LET res == resolve_engram_ref(peer, arg)
    IN  /\ last' = [ op |-> "peer_read", arg |-> arg,
                     out |-> [ tag |-> res.tag, id |-> res.id,
                               data |-> IF res.tag = "ok"
                                        THEN Some(read_engram(Unwrap(res.oid)))
                                        ELSE None ] ]
        /\ UNCHANGED << storeVars, hookVars, pty, extVars >>

ReplicaIds == { << "a", "a", "b" >>, << "a", "b", "a" >> }

\* What clone A stores, and what clone B stores itself: another engram, and
\* one under an identifier A uses too.
ReplicaInputs == { MakeData(id, 1, << "aider" >>, PlainIntent) : id \in ReplicaIds }

PeerInputs ==
    { MakeData(<< "b", "b", "a" >>, 2, << "claude", "-code" >>, PlainIntent),
      MakeData(<< "a", "a", "b" >>, 2, << "claude", "-code" >>, PlainIntent) }

ReplicaNext ==
    \/ \E data \in ReplicaInputs : Create(data)
    \/ PushEngrams(Origin, FALSE)
    \/ \E data \in SyncRemoteInputs : OtherClonePush(data)
    \/ \E data \in PeerInputs : PeerCreate(data)
    \/ PeerFetch
    \/ PeerList
    \/ \E id \in ReplicaIds : PeerRead(id)

ReplicaSpec == Init /\ [][ReplicaNext]_vars

\* The engram refs of clone A that the remote holds with A's commit.
PushedByA == { n \in DOMAIN refs : IsEngramRef(n) /\ n \in DOMAIN remote /\ remote[n] = refs[n] }

Listed(r, manifest) ==
    \E i \in DOMAIN list(r, DefaultListOptions) : list(r, DefaultListOptions)[i] = manifest

\* C21: a successful push of clone A leaves every engram ref of A on the
\* remote with A's commit; nothing takes it from the remote again; and after
\* a fetch in clone B every such engram is in B's list(), B's read() of it
\* returns the record A reads, and every engram ref B had before the fetch
\* is still there.
C21_Replication ==
    [][ /\ (last'.op = "push" /\ last'.out.tag = "ok") =>
              \A n \in DOMAIN refs : IsEngramRef(n) => n \in PushedByA'
        /\ \A n \in DOMAIN remote : n \in DOMAIN remote' /\ remote'[n] = remote[n]
        /\ last'.op = "peer_fetch" =>
              /\ \A n \in DOMAIN peer : n \in DOMAIN peer'
              /\ \A n \in PushedByA :
                    /\ n \in DOMAIN peer'
                    /\ read_engram(peer'[n]) = read_engram(refs[n])
                    /\ Listed(peer', read_manifest(refs[n]))
        /\ (last'.op = "peer_read" /\ engram_ref_name(last'.arg) \in PushedByA
               /\ engram_ref_name(last'.arg) \in DOMAIN peer
               /\ peer[engram_ref_name(last'.arg)] = refs[engram_ref_name(last'.arg)]) =>
              last'.out.data = Some(read_engram(refs[engram_ref_name(last'.arg)])) ]_vars

\* Clone B has fetched: it holds an engram A stored and pushed, under which
\* it had stored another record before, and still holds its own engram.
C21_Witness ==
    /\ last.op = "peer_fetch"
    /\ engram_ref_name(<< "a", "a", "b" >>) \in PushedByA
    /\ engram_ref_name(<< "a", "b", "a" >>) \in PushedByA
    /\ engram_ref_name(<< "b", "b", "a" >>) \in DOMAIN peer
    /\ peer[engram_ref_name(<< "a", "a", "b" >>)] = refs[engram_ref_name(<< "a", "a", "b" >>)]
    /\ EngramCount(peer) = 3

----------------------------------------------------------------------------
(* Searching the index (index/reader.rs, search.rs, trace.rs, blame.rs)    *)

\* The characters the default tokenizer splits a text at.
Separators == { "/", ".", " ", "\n", ":" }

terms(text) == SelectSeq(text, LAMBDA c : c \notin Separators)

\* The fields the free-text query parser searches.
SearchFields ==
    { "intent_request", "intent_summary", "transcript_text", "dead_ends", "file_paths" }

\* How often the terms of the query occur in the fields of the document;
\* the query parser joins the terms of a query with OR.
term_freq(doc, fields, query) ==
    Cardinality({ p \in UNION { { << f, i, j >> : i \in DOMAIN terms(doc[f]),
                                                  j \in DOMAIN terms(query) } :
                                 f \in fields } :
                    terms(doc[p[1]])[p[2]] = terms(query)[p[3]] })

field_len(doc, fields) ==
    Cardinality(UNION { { << f, i >> : i \in DOMAIN terms(doc[f]) } : f \in fields })

\* The order of TopDocs: by score, and by document address among equal
\* scores.  Of the BM25 score the model keeps that it grows with the term
\* frequency and falls with the length of the field; which end of the
\* addresses wins a tie is left open.
TieBreaks == { "lower_address", "higher_address" }

ranks_before(docs, fields, query, tie, i, j) ==
    LET ti == term_freq(docs[i], fields, query)
        tj == term_freq(docs[j], fields, query)
        li == field_len(docs[i], fields)
        lj == field_len(docs[j], fields)
    IN  \/ ti > tj
        \/ ti = tj /\ li < lj
        \/ ti = tj /\ li = lj /\ (IF tie = "lower_address" THEN i < j ELSE i > j)

\* searcher.search(&query, &TopDocs::with_limit(limit)) and the loop that
\* parses the stored manifest of every hit.
top_docs(docs, fields, query, limit, tie) ==
    LET hits == { i \in DOMAIN docs : term_freq(docs[i], fields, query) > 0 }
        before(i) == Cardinality({ j \in hits : ranks_before(docs, fields, query, tie, j, i) })
        n == IF Cardinality(hits) < limit THEN Cardinality(hits) ELSE limit
    IN  [ k \in 1..n |->
            LET i == CHOOSE h \in hits : before(h) = k - 1
            IN  [ manifest |-> manifest_from_json(docs[i].manifest_json),
                  score |-> term_freq(docs[i], fields, query) ] ]

\* SearchEngine::search: ensure_index, then EngramSearcher::search.
Search(query, limit) ==
    \E tie \in TieBreaks :
        /\ index' = ensure_index(index, refs)
        /\ last' = [ op |-> "search", arg |-> [ query |-> query, limit |-> limit ],
                     out |-> [ tag |-> "ok",
                               results |-> top_docs(Unwrap(ensure_index(index, refs)),
                                                    SearchFields, query, limit, tie) ] ]
        /\ UNCHANGED << storeVars, hookVars, pty, peer, creators >>

\* `engram blame <file> -n <limit>`: the hits of search_by_file are printed
\* in the order they come in.
Blame(file, limit) ==
    \E tie \in TieBreaks :
        /\ index' = ensure_index(index, refs)
        /\ last' = [ op |-> "blame", arg |-> [ query |-> file, limit |-> limit ],
                     out |-> [ tag |-> "ok",
                               results |-> top_docs(Unwrap(ensure_index(index, refs)),
                                                    { "file_paths" }, file, limit, tie) ] ]
        /\ UNCHANGED << storeVars, hookVars, pty, peer, creators >>

\* entries.sort_by_key(|e| e.manifest.created_at): stable, oldest first.
RECURSIVE SortByCreatedAsc(_)
SortByCreatedAsc(rs) ==
    IF rs = << >> THEN << >>
    ELSE LET rest == SortByCreatedAsc(SubSeq(rs, 1, Len(rs) - 1))
             r == rs[Len(rs)]
             keep == SelectSeq(rest, LAMBDA x : x.manifest.created_at <= r.manifest.created_at)
             move == SelectSeq(rest, LAMBDA x : x.manifest.created_at > r.manifest.created_at)
         IN  keep \o << r >> \o move

\* trace_file asks search_by_file for this many hits.
TraceLimit == 100

\* trace_file
Trace(file) ==
    \E tie \in TieBreaks :
        /\ index' = ensure_index(index, refs)
        /\ last' = [ op |-> "trace", arg |-> [ query |-> file, limit |-> TraceLimit ],
                     out |-> [ tag |-> "ok",
                               results |->
                                   SortByCreatedAsc(
                                       top_docs(Unwrap(ensure_index(index, refs)),
                                                { "file_paths" }, file, TraceLimit, tie)) ] ]
        /\ UNCHANGED << storeVars, hookVars, pty, peer, creators >>

\* `engram reindex`: SearchEngine::rebuild.
Reindex ==
    /\ index' = rebuild_index(refs)
    /\ last' = [ op |-> "reindex", arg |-> << >>,
                 out |-> [ tag |-> "ok", count |-> Len(Unwrap(rebuild_index(refs))) ] ]
    /\ UNCHANGED << storeVars, hookVars, pty, peer, creators >>

\* Two files of the working tree.
FileA == << "a", ".", "rs" >>
FileB == << "b", ".", "rs" >>

Touched(path) ==
    [ path |-> path, change_type |-> "modified", lines_added |-> None, lines_removed |-> None ]

\* What an SDK session commits: an older engram that touched one file, and
\* newer ones that touched it too, one of them with a second file.
SdkData(id, created_at, files) ==
    [ MakeData(id, created_at, << "aider" >>, PlainIntent) EXCEPT
        !.operations.file_changes = [ i \in 1..Len(files) |-> Touched(files[i]) ] ]

IndexInputs ==
    { SdkData(<< "a", "a", "b" >>, 1, << FileA >>),
      SdkData(<< "a", "b", "a" >>, 2, << FileA >>),
      SdkData(<< "a", "b", "a" >>, 2, << FileA, FileB >>) }

IndexIds == { << "a", "a", "b" >>, << "a", "b", "a" >> }

Queries == { FileA, FileB, << "x" >> }

Limits == { 1, 2 }

IndexNext ==
    \/ \E data \in IndexInputs : Create(data)
    \/ \E f \in ClaudeFiles : ImportClaude(f)
    \/ \E id \in IndexIds : Delete(id)
    \/ \E query \in Queries, limit \in Limits : Search(query, limit)
    \/ \E file \in { FileA, FileB }, limit \in Limits : Blame(file, limit)
    \/ \E file \in { FileA, FileB } : Trace(file)
    \/ Reindex

IndexSpec == Init /\ [][IndexNext]_vars

\* C22: the entries blame emits are ordered by created_at descending, and
\* there are at most `limit` of them.
C22_BlameNewestFirst ==
    last.op = "blame" =>
        /\ Len(last.out.results) <= last.arg.limit
        /\ \A i, j \in DOMAIN last.out.results :
              i < j => last.out.results[i].manifest.created_at
                           >= last.out.results[j].manifest.created_at

\* Creation by record, by import and by an SDK session, and searches.
ObserveNext ==
    \/ \E data \in IndexInputs : Create(data)
    \/ \E f \in ClaudeFiles : ImportClaude(f)
    \/ RecordStartOpen
    \/ RecordStartWrite
    \/ RecordEnd
    \/ Search(FileA, 2)
    \/ Trace(FileA)

ObserveSpec == Init /\ [][ObserveNext]_vars

\* The identifiers of the documents the index holds.
Indexed == IF IsSome(index) THEN { Unwrap(index)[i].id : i \in DOMAIN Unwrap(index) } ELSE { }

Searched == last.op \in { "search", "blame", "trace" }

\* C24: the index a search has just consulted holds a document for every
\* stored engram, whichever way the engram was created.
C24_IndexObservesCreation ==
    Searched => \A n \in DOMAIN refs : IsEngramRef(n) => n[4] \in Indexed

\* C27: every manifest a search, a trace or a blame returns belongs to an
\* engram whose ref exists.
C27_ResultsAreLive ==
    Searched =>
        \A i \in DOMAIN last.out.results :
            engram_ref_name(last.out.results[i].manifest.id) \in DOMAIN refs

----------------------------------------------------------------------------
(* The blank line between the message and the trailers (handlers.rs)       *)

\* Messages that end without a newline, with one, and with a blank line.
CommitBodies ==
    { << "x" >>, << "x", "\n" >>, << "x", "\n", "\n" >>, << "x", "\n", "x", "\n" >>,
      << "x", "\n", "\n", "x" >> }

SeparationNext ==
    \/ RecordStartOpen
    \/ RecordStartWrite
    \/ RecordEnd
    \/ \E m \in CommitBodies : WriteMsg(m)
    \/ PrepareCommitMsg
    \/ CommitCreate
    \/ \E h \in HookIds : PostCommitStep(h)

SeparationSpec == Init /\ [][SeparationNext]_vars

RECURSIVE StripNewlines(_)
StripNewlines(s) ==
    IF s /= << >> /\ s[Len(s)] = "\n" THEN StripNewlines(SubSeq(s, 1, Len(s) - 1)) ELSE s

\* C23: when the hook has run with an active session on a message without
\* "Engram-Id:", the message file is the body of the message, one blank
\* line, and the trailers Engram-Id, Engram-Agent, Engram-Tokens and, when
\* the cost is known, Engram-Cost, in this order.
C23_OneBlankLine ==
    ( /\ last.op = "prepare-commit-msg"
      /\ IsSome(last.out.session)
      /\ ~Contains(last.arg, << "Engram-Id:" >>) )
    => msgFile = StripNewlines(last.arg) \o << "\n", "\n" >>
                     \o Trailers(Unwrap(last.out.session))

----------------------------------------------------------------------------
(* ContextGraph::subgraph (graph/model.rs)                                 *)

MaxEdges == 3
MaxDepth == 2

\* The inner loop of subgraph over self.edges for the node taken from the
\* queue, following edges out of the node only.
RECURSIVE scan_edges_outgoing(_, _, _, _)
scan_edges_outgoing(edges, current, d, st) ==
    IF edges = << >> THEN st
    ELSE LET edge == Head(edges)
         IN  IF edge.from = current /\ edge.to \notin st.visited
             THEN scan_edges_outgoing(Tail(edges), current, d,
                      [ queue |-> Append(st.queue, << edge.to, d + 1 >>),
                        visited |-> st.visited \cup { edge.to } ])
             ELSE scan_edges_outgoing(Tail(edges), current, d, st)

\* The inner loop of subgraph over self.edges for the node taken from the
\* queue: the other end of every edge at the node is visited and queued
\* when it is new.
RECURSIVE scan_edges(_, _, _, _)
scan_edges(edges, current, d, st) ==
    IF edges = << >> THEN st
    ELSE LET edge == Head(edges)
             touches == edge.from = current \/ edge.to = current
             neighbor == IF edge.from = current THEN edge.to ELSE edge.from
         IN  IF touches /\ neighbor \notin st.visited
             THEN scan_edges(Tail(edges), current, d,
                      [ queue |-> Append(st.queue, << neighbor, d + 1 >>),
                        visited |-> st.visited \cup { neighbor } ])
             ELSE scan_edges(Tail(edges), current, d, st)

\* The while loop of subgraph: the set `visited` when the queue is empty.
RECURSIVE bfs(_, _, _)
bfs(edges, depth, st) ==
    IF st.queue = << >> THEN st.visited
    ELSE LET current == Head(st.queue)[1]
             d == Head(st.queue)[2]
             rest == [ st EXCEPT !.queue = Tail(st.queue) ]
         IN  IF d >= depth THEN bfs(edges, depth, rest)
             ELSE bfs(edges, depth, scan_edges(edges, current, d, rest))

subgraph(graph, center_id, depth) ==
    LET visited == bfs(graph.edges, depth,
                       [ queue |-> << << center_id, 0 >> >>, visited |-> { center_id } ])
    IN  [ nodes |-> SelectSeq(graph.nodes, LAMBDA n : n.id \in visited),
          edges |-> SelectSeq(graph.edges,
                              LAMBDA e : e.from \in visited /\ e.to \in visited) ]

\* A caller of subgraph: the graph, the centre and the depth are at hand,
\* and the call returns the subgraph.
Subgraph ==
    /\ last.op = "graph"
    /\ last' = [ op |-> "subgraph", arg |-> last.arg,
                 out |-> subgraph(last.arg.graph, last.arg.center, last.arg.depth) ]
    /\ UNCHANGED << storeVars, hookVars, pty, extVars >>

\* Three engram nodes, and the identifier of an engram that is no node:
\* build_graph names it in the edge to a lineage parent that is not stored.
GraphNodes ==
    << [ id |-> "engram:1", node_type |-> "Engram", label |-> "1" ],
       [ id |-> "engram:2", node_type |-> "Engram", label |-> "2" ],
       [ id |-> "engram:3", node_type |-> "Engram", label |-> "3" ] >>

NodeIds == { GraphNodes[i].id : i \in DOMAIN GraphNodes }

GraphEdges ==
    { [ from |-> "engram:1", to |-> "engram:2", edge_type |-> "FollowsFrom" ],
      [ from |-> "engram:2", to |-> "engram:1", edge_type |-> "FollowsFrom" ],
      [ from |-> "engram:2", to |-> "engram:3", edge_type |-> "FollowsFrom" ],
      [ from |-> "engram:3", to |-> "engram:1", edge_type |-> "FollowsFrom" ],
      [ from |-> "engram:1", to |-> "engram:0", edge_type |-> "FollowsFrom" ],
      [ from |-> "engram:3", to |-> "engram:0", edge_type |-> "FollowsFrom" ] }

Graphs ==
    { [ nodes |-> GraphNodes, edges |-> es ] :
        es \in UNION { [ 1..n -> GraphEdges ] : n \in 0..MaxEdges } }

SubgraphInit ==
    /\ refs = << >>
    /\ headFile = None
    /\ remote = << >>
    /\ config = DefaultConfig
    /\ \E graph \in Graphs, c \in NodeIds \cup { "engram:0" }, depth \in 0..MaxDepth :
          last = [ op |-> "graph",
                   arg |-> [ graph |-> graph, center |-> c, depth |-> depth ],
                   out |-> << >> ]
    /\ sessionFile = None
    /\ fileLock = None
    /\ msgFile = << >>
    /\ git = [ pc |-> "idle", head |-> None, log |-> << >> ]
    /\ hooks = [ h \in HookIds |-> IdleHook ]
    /\ rec = IdleRec
    /\ pty = IdlePty
    /\ hookFiles = NoHookFiles
    /\ ExtInit

SubgraphNext == Subgraph

SubgraphSpec == SubgraphInit /\ [][SubgraphNext]_vars

\* The identifiers at most d edges from c, an edge counting in either
\* direction.
RECURSIVE Within(_, _, _)
Within(edges, c, d) ==
    IF d = 0 THEN { c }
    ELSE LET near == Within(edges, c, d - 1)
         IN  near \cup { edges[i].to : i \in { j \in DOMAIN edges : edges[j].from \in near } }
                  \cup { edges[i].from : i \in { j \in DOMAIN edges : edges[j].to \in near } }

SeqSet(q) == { q[i] : i \in DOMAIN q }

RetainsWithin(graph, c, d, sub) ==
    /\ sub.nodes = SelectSeq(graph.nodes, LAMBDA n : n.id \in Within(graph.edges, c, d))
    /\ \A i \in DOMAIN sub.nodes : sub.nodes[i].id \in Within(graph.edges, c, d)

RetainedIds(sub) == { sub.nodes[i].id : i \in DOMAIN sub.nodes }

EdgesBetweenRetained(graph, sub) ==
    sub.edges = SelectSeq(graph.edges,
                          LAMBDA e : e.from \in RetainedIds(sub) /\ e.to \in RetainedIds(sub))

Closed(graph) ==
    \A i \in DOMAIN graph.edges :
        /\ graph.edges[i].from \in { graph.nodes[k].id : k \in DOMAIN graph.nodes }
        /\ graph.edges[i].to \in { graph.nodes[k].id : k \in DOMAIN graph.nodes }

----------------------------------------------------------------------------
(* build_graph (graph/builder.rs)                                          *)

\* format!("engram:{}", id), format!("agent:{}", name), format!("file:{}",
\* path) and format!("commit:{}", &sha[..min(8, sha.len())]).
engram_node_id(id) == << "engram:" >> \o id
agent_node_id(name) == << "agent:" >> \o name
file_node_id(path) == << "file:" >> \o path
short_sha(sha) == SubSeq(sha, 1, IF Len(sha) < 8 THEN Len(sha) ELSE 8)
commit_node_id(sha) == << "commit:" >> \o short_sha(sha)

\* The loop over data.operations.file_changes.
RECURSIVE add_files(_, _, _)
add_files(file_changes, from, acc) ==
    IF file_changes = << >> THEN acc
    ELSE LET file_id == file_node_id(Head(file_changes).path)
             nodes == IF file_id \in acc.seen_files THEN acc.graph.nodes
                      ELSE Append(acc.graph.nodes,
                                  [ id |-> file_id, node_type |-> "File",
                                    label |-> Head(file_changes).path ])
             edges == acc.graph.edges
                        \o << [ from |-> from, to |-> file_id,
                                edge_type |-> "TouchedFile" ],
                              [ from |-> file_id, to |-> from,
                                edge_type |-> "ModifiedBy" ] >>
         IN  add_files(Tail(file_changes), from,
                       [ acc EXCEPT !.graph = [ nodes |-> nodes, edges |-> edges ],
                                    !.seen_files = @ \cup { file_id } ])

\* The loop over data.lineage.git_commits.
RECURSIVE add_commits(_, _, _)
add_commits(git_commits, from, acc) ==
    IF git_commits = << >> THEN acc
    ELSE LET commit_id == commit_node_id(Head(git_commits))
             nodes == IF commit_id \in acc.seen_commits THEN acc.graph.nodes
                      ELSE Append(acc.graph.nodes,
                                  [ id |-> commit_id, node_type |-> "Commit",
                                    label |-> short_sha(Head(git_commits)) ])
             edges == Append(acc.graph.edges,
                             [ from |-> from, to |-> commit_id,
                               edge_type |-> "ProducedBy" ])
         IN  add_commits(Tail(git_commits), from,
                         [ acc EXCEPT !.graph = [ nodes |-> nodes, edges |-> edges ],
                                      !.seen_commits = @ \cup { commit_id } ])

\* The edge to the lineage parent, pushed whenever the engram names one.
add_lineage(lineage, from, acc) ==
    IF IsSome(lineage.parent_engram)
    THEN [ acc EXCEPT !.graph.edges =
             Append(@, [ from |-> from,
                         to |-> engram_node_id(Unwrap(lineage.parent_engram)),
                         edge_type |-> "FollowsFrom" ]) ]
    ELSE acc

\* One turn of the loop over the manifests: the engram node, the agent node
\* and edge, the files, the commits, the lineage edge.  The label of an
\* engram without a summary is the head of its identifier.
add_engram(manifest, data, acc) ==
    LET from == engram_node_id(manifest.id)
        agent_id == agent_node_id(manifest.agent.name)
        with_engram == Append(acc.graph.nodes,
                              [ id |-> from, node_type |-> "Engram",
                                label |-> IF IsSome(manifest.summary)
                                          THEN Unwrap(manifest.summary)
                                          ELSE short_sha(manifest.id) ])
        nodes == IF agent_id \in acc.seen_agents THEN with_engram
                 ELSE Append(with_engram,
                             [ id |-> agent_id, node_type |-> "Agent",
                               label |-> manifest.agent.name ])
        edges == Append(acc.graph.edges,
                        [ from |-> from, to |-> agent_id, edge_type |-> "UsedAgent" ])
        agent_added == [ acc EXCEPT !.graph = [ nodes |-> nodes, edges |-> edges ],
                                    !.seen_agents = @ \cup { agent_id } ]
    IN  add_lineage(data.lineage, from,
            add_commits(data.lineage.git_commits, from,
                add_files(data.operations.file_changes, from, agent_added)))

RECURSIVE build_from(_, _, _)
build_from(manifests, r, acc) ==
    IF manifests = << >> THEN acc.graph
    ELSE LET manifest == Head(manifests)
             res == resolve_engram_ref(r, manifest.id)
         IN  IF res.tag = "ok"
             THEN build_from(Tail(manifests), r,
                             add_engram(manifest, read_engram(Unwrap(res.oid)), acc))
             ELSE build_from(Tail(manifests), r, acc)

build_graph(r) ==
    build_from(list(r, DefaultListOptions), r,
               [ graph |-> [ nodes |-> << >>, edges |-> << >> ],
                 seen_agents |-> { }, seen_files |-> { }, seen_commits |-> { } ])

BuildGraph ==
    /\ last' = [ op |-> "build_graph", arg |-> << >>, out |-> build_graph(refs) ]
    /\ UNCHANGED << storeVars, hookVars, pty, extVars >>

\* Engrams that touched files, produced commits and follow from a parent:
\* the parent is one of the identifiers this clone stores engrams under, or
\* an identifier it never stores.
GraphIds == { << "a", "a", "b" >>, << "a", "b", "a" >> }

Foreign == << "b", "a", "a" >>

Sha == << "c", "0", "f", "f", "e", "e", "0", "0", "1", "2" >>

GraphData(id, files, commits, parent) ==
    [ SdkData(id, 1, files) EXCEPT !.lineage.git_commits = commits,
                                   !.lineage.parent_engram = parent ]

GraphInputs ==
    { GraphData(id, files, commits, parent) :
        id \in GraphIds,
        files \in { << >>, << FileA >>, << FileA, FileB, FileA >> },
        commits \in { << >>, << Sha >> },
        parent \in { None, Some(<< "a", "a", "b" >>), Some(Foreign) } }

GraphNext ==
    \/ \E data \in GraphInputs : Create(data)
    \/ \E id \in GraphIds : Delete(id)
    \/ BuildGraph

GraphSpec == Init /\ [][GraphNext]_vars

\* C29: in the graph build_graph returns, the from and the to of every edge
\* are identifiers of nodes of the graph, and no node identifier appears
\* twice.
C29_GraphClosed ==
    last.op = "build_graph" =>
        LET graph == last.out
            ids == { graph.nodes[i].id : i \in DOMAIN graph.nodes }
        IN  /\ \A i \in DOMAIN graph.edges :
                  graph.edges[i].from \in ids /\ graph.edges[i].to \in ids
            /\ \A i, j \in DOMAIN graph.nodes :
                  graph.nodes[i].id = graph.nodes[j].id => i = j

\* No node identifier appears twice, and every edge starts at a node.
GraphNodesUnique ==
    last.op = "build_graph" =>
        LET graph == last.out
            ids == { graph.nodes[i].id : i \in DOMAIN graph.nodes }
        IN  /\ \A i \in DOMAIN graph.edges : graph.edges[i].from \in ids
            /\ \A i, j \in DOMAIN graph.nodes :
                  graph.nodes[i].id = graph.nodes[j].id => i = j

----------------------------------------------------------------------------
(* The session file when record returns                                    *)

\* One record, ending well or with an error, and commits made meanwhile and
\* afterwards.
CleanupNext ==
    \/ RecordStartOpen
    \/ RecordStartWrite
    \/ RecordEnd
    \/ RecordPtyFails
    \/ RecordStoreFails
    \/ WriteMsg(<< "x" >>)
    \/ PrepareCommitMsg
    \/ CommitCreate
    \/ \E h \in HookIds : PostCommitStep(h)

CleanupSpec == Init /\ [][CleanupNext]_vars

Returned == rec.pc = "idle" /\ rec.runs > 0

\* C26: once record has returned, with or without an error, the session
\* file does not exist, and a prepare-commit-msg hook that runs afterwards
\* finds no session to take trailers from.
C26_CleanupOnEveryExit ==
    Returned =>
        /\ sessionFile = None
        /\ last.op = "prepare-commit-msg" => ~IsSome(last.out.session)

\* The paths of record that reach line 79: the session file is gone when
\* record returns after PtySession::run returned Ok.
CleanupAfterRun ==
    (Returned /\ last.op = "record" /\ last.out.tag /= "pty_failed")
        => sessionFile = None

----------------------------------------------------------------------------
(* GitStorage::create in several processes at once (git_backend.rs)         *)

\* create, lines 74-76: the objects are written and the ref is set; what is
\* left is update_head_pointer.
CreateRef(p, data) ==
    /\ creators[p].pc = "idle"
    /\ \/ EngramCount(refs) < MaxEngrams
       \/ engram_ref_name(data.manifest.id) \in DOMAIN refs
    /\ refs' = create_engram_ref(refs, data.manifest.id, create_engram_objects(data))
    /\ creators' = [ creators EXCEPT ![p] = [ pc |-> "pointer", data |-> Some(data) ] ]
    /\ UNCHANGED << headFile, remote, config, last, hookVars, pty, peer, index >>

\* update_head_pointer, lines 191-200: read the file; return when the
\* timestamp it holds is not older than created_at.
HeadRead(p) ==
    /\ creators[p].pc = "pointer"
    /\ LET data == Unwrap(creators[p].data)
           kept == update_head_pointer(headFile, data.manifest.id,
                                       data.manifest.created_at) = headFile
       IN  /\ creators' = [ creators EXCEPT ![p].pc = IF kept THEN "done" ELSE "write" ]
           /\ last' = IF kept
                      THEN [ op |-> "create", arg |-> data,
                             out |-> [ tag |-> "ok", id |-> data.manifest.id ] ]
                      ELSE last
    /\ UNCHANGED << storeVars, hookVars, pty, peer, index >>

\* update_head_pointer, lines 202-203: fs::write of "<id> <timestamp>",
\* whatever the file holds by now.
HeadWrite(p) ==
    /\ creators[p].pc = "write"
    /\ LET data == Unwrap(creators[p].data)
       IN  /\ headFile' = Some(<< data.manifest.id, to_rfc3339(data.manifest.created_at) >>)
           /\ last' = [ op |-> "create", arg |-> data,
                        out |-> [ tag |-> "ok", id |-> data.manifest.id ] ]
    /\ creators' = [ creators EXCEPT ![p].pc = "done" ]
    /\ UNCHANGED << refs, remote, config, hookVars, pty, peer, index >>

RaceNext ==
    \E p \in Creators :
        \/ \E data \in StoreInputs : CreateRef(p, data)
        \/ HeadRead(p)
        \/ HeadWrite(p)

RaceSpec == Init /\ [][RaceNext]_vars

\* The timestamp the pointer file holds; 0 while there is none.
HeadTime(file) ==
    IF IsSome(file) /\ Len(Unwrap(file)) >= 2 /\ IsSome(parse_rfc3339(Unwrap(file)[2]))
    THEN Unwrap(parse_rfc3339(Unwrap(file)[2])) ELSE 0

\* C28: in every interleaving of concurrent creates, the timestamp stored in
\* the pointer file never decreases.
C28_HeadMonotonic == [][HeadTime(headFile') >= HeadTime(headFile)]_vars

----------------------------------------------------------------------------
(* ActiveSession::save beside load and add_commit (hooks/session.rs)        *)

\* The session file of an earlier `engram record` exists, with the commits
\* noted so far, when another `engram record` starts in the repository and
\* saves its session while commits are being made.
SessionInit ==
    /\ Init!1 /\ Init!2 /\ Init!3 /\ Init!4 /\ Init!5
    /\ \E before \in { << >>, << << "c", "0" >> >> } :
         sessionFile =
            Some(session_to_json(
                [ ActiveSession_new(<< "a", "a", "b" >>,
                                    [ name |-> << "aider" >>, model |-> None ], 1)
                  EXCEPT !.commits = before ]))
    /\ fileLock = None
    /\ msgFile = << >>
    /\ git = [ pc |-> "idle", head |-> None, log |-> << >> ]
    /\ hooks = [ h \in HookIds |-> IdleHook ]
    /\ rec = IdleRec
    /\ pty = IdlePty
    /\ hookFiles = NoHookFiles
    /\ ExtInit

SessionNext ==
    \/ RecordStartOpen
    \/ RecordStartWrite
    \/ WriteMsg(<< "x" >>)
    \/ PrepareCommitMsg
    \/ CommitCreate
    \/ \E h \in HookIds : PostCommitStep(h)

SessionSpec == SessionInit /\ [][SessionNext]_vars

\* C30: while the session file exists, a load beside a save or an
\* add_commit returns a session (prepare-commit-msg and post-commit find
\* one), and an add_commit beside a save finds a session to parse under its
\* lock.
C30_CompleteStates ==
    /\ IsSome(sessionFile)
    /\ last.op = "prepare-commit-msg" => IsSome(last.out.session)
    /\ \A h \in HookIds : hooks[h].result \notin { "no-session", "error" }

\* The file exists throughout, and whatever it holds outside a writer's
\* lock and outside a save is a complete session.
CompleteOutsideSave ==
    /\ IsSome(sessionFile)
    /\ (fileLock = None /\ rec.pc /= "saving") => IsSome(load(sessionFile))

====
